---- MODULE Spec2Model ----
(***************************************************************************)
(* A model of the cyberquote intake tool: the field normalizers            *)
(* (fieldValidation), the extraction orchestrator parseInsurancePdf with   *)
(* its summarization gate, the App component that drives them, the        *)
(* submission module (payload transform, token cache), parseEmailFile     *)
(* (sender, body, attachments) and the QuoteForm component.                *)
(*                                                                         *)
(* The specifications share the variables:                                 *)
(*   SpecNorm     the two normalizers applied to bounded inputs            *)
(*   SpecParse    parseInsurancePdf called with bounded arguments          *)
(*   SpecMerge    parseInsurancePdf with answers that vary the groups      *)
(*   SpecApp      the App's handlers calling parseInsurancePdf             *)
(*   SpecPayload  submitQuote's payload built from bounded records         *)
(*   SpecToken    interleaved calls of getAccessToken                      *)
(*   SpecSender   parseEmailFile's sender address on bounded messages      *)
(*   SpecAppLive  SpecApp with every pending call settling eventually      *)
(*   SpecMime     parseEmailFile's body and attachments on bounded trees   *)
(*   SpecForm     QuoteForm edited and submitted                           *)
(***************************************************************************)
EXTENDS Integers, Sequences, FiniteSets, TLC

VARIABLES
    \* ---- normalizer harness -------------------------------------------
    npc,        \* "init" | "once" | "twice"
    nfun,       \* "agg" | "ret": which normalizer is applied
    nin,        \* the value handed to the normalizer
    nnotes0,    \* the notes list before the first call
    nout,       \* result of the first call
    nnotes,     \* the notes list after the first call
    nout2,      \* result of the second call (on nout)
    nnotes2,    \* the notes list after the second call
    \* ---- parseInsurancePdf --------------------------------------------
    pc,         \* "idle" | "summarizing" | "extracting" | "done" | "failed"
    args,       \* the arguments of the running invocation
    emailContent,        \* local: the text handed to the extraction call
    emailSummaryFields,  \* local: the partial record, or NoFields
    sumOutcome, \* how the summarization call ended: "none" | "ok" | "failed"
    request,    \* the extraction request built from the arguments
    events,     \* calls issued and completed by this invocation, in order
    rawData,    \* the record the extraction service returned
    result,     \* the record returned to the caller
    error,      \* the message of the error thrown to the caller
    \* ---- App ----------------------------------------------------------
    isProcessing,
    parsedData,
    appError,
    emailBody,
    emailFileName,
    emailMetadata,
    isEmailSummarized,
    pdfFiles,
    emailAttachments,
    upPc,       \* handleEmailSelect: "idle" | "parsing" | "reading"
    anPc,       \* handleAnalyze: "idle" | "converting" | "parsing"
    emailVia,   \* history: how emailBody was set: "none" | "parsed" | "fallback"
    anVia,      \* history: emailVia when the running Analyze action started
    \* ---- submitQuote: the payload transform
    ypc,        \* "off" | "ready" | "sent"
    quote,      \* the record handed to submitQuote
    payload,    \* what transformPayload made of it, as serialized
    \* ---- getAccessToken: the token cache of the submission module
    tenv,         \* process.env.K2_CYBER_ENV, as getApiConfig reads it: "test" | "prod"
    cachedToken,  \* JNull, or the environment whose token endpoint issued the token
    tokenExpiry,  \* seconds
    cachedEnv,    \* JNull | "test" | "prod"
    now,          \* Date.now(), in seconds
    tcalls,       \* per call of getAccessToken: where it stands, its config.env, its result
    \* ---- parseEmailFile: the sender address
    epc,          \* "off" | "parsed" | "done"
    eml,          \* the parsed message and the raw text of the file
    brokerEmail,  \* metadata.from once parseEmailFile has filled it in
    \* ---- handleEmailSelect: the raw text its fallback read last (history)
    fileContent,
    \* ---- handleAnalyze: the invocations started while another one runs
    others,       \* per invocation: where it stands and the PDFs it closed over
    \* ---- parseEmailFile: the body and the attachments
    mpc,          \* "off" | "parsed" | "body" | "done"
    mime,         \* the parsed message: its root node
    mailBody,     \* emailBody
    pdfAttachments,
    \* ---- QuoteForm ----------------------------------------------------
    fpc,          \* "off" | "form": whether the form is mounted
    formData,
    stats,
    isSubmitting,
    submitResult, \* JNull, or the status of the response: "approved" | "declined" | "error"
    showResult,
    errorModalOpen,
    submits       \* history: per click on the submit button, where submitQuote stands

nvars == <<npc, nfun, nin, nnotes0, nout, nnotes, nout2, nnotes2>>
pvars == <<pc, args, emailContent, emailSummaryFields, sumOutcome, request,
           events, rawData, result, error>>
avars == <<isProcessing, parsedData, appError, emailBody, emailFileName, emailMetadata,
           isEmailSummarized, pdfFiles, emailAttachments, upPc, anPc, emailVia, anVia>>
yvars == <<ypc, quote, payload>>
tvars == <<tenv, cachedToken, tokenExpiry, cachedEnv, now, tcalls>>
evars == <<epc, eml, brokerEmail>>
mvars == <<mpc, mime, mailBody, pdfAttachments>>
fvars == <<fpc, formData, stats, isSubmitting, submitResult, showResult, errorModalOpen,
           submits>>
zvars == <<others, mvars, fvars>>
ovars == <<yvars, tvars, evars, zvars>>
xvars == <<ovars, fileContent>>
vars == <<nvars, pvars, avars, xvars>>

(***************************************************************************)
(* Values.  A JavaScript value of type number | string | null is a record  *)
(* with a tag: t = "null", "num" (n the number), "nan", or "str" (s the    *)
(* characters).                                                            *)
(***************************************************************************)
Null == [t |-> "null", n |-> 0, s |-> <<>>]
NaN == [t |-> "nan", n |-> 0, s |-> <<>>]
Num(k) == [t |-> "num", n |-> k, s |-> <<>>]
Str(chars) == [t |-> "str", n |-> 0, s |-> chars]

Abs(x) == IF x < 0 THEN -x ELSE x
Max(a, b) == IF a >= b THEN a ELSE b
Range(q) == {q[i] : i \in 1..Len(q)}

\* ---- bounds -------------------------------------------------------------
Delta == 1          \* inputs lie within Delta of every probe point
MaxPriorNotes == 1  \* longest notes list handed to a normalizer

\* ---- fieldValidation ------------------------------------------------------
AGG_LIMIT_OPTIONS == <<50000, 100000, 250000, 500000, 750000, 1000000, 2000000, 3000000>>
RETENTION_OPTIONS == <<500, 1000, 2500, 5000, 10000, 15000, 25000, 50000, 75000, 100000>>
AggMax == 3000000
RetentionFloor == 1000

Digits == {"0", "1", "2", "3", "4", "5", "6", "7", "8", "9"}
DigitVal(c) ==
    CASE c = "0" -> 0 [] c = "1" -> 1 [] c = "2" -> 2 [] c = "3" -> 3 [] c = "4" -> 4
      [] c = "5" -> 5 [] c = "6" -> 6 [] c = "7" -> 7 [] c = "8" -> 8 [] c = "9" -> 9

\* value.replace(/,/g, '')
StripCommas(chars) == SelectSeq(chars, LAMBDA c : c # ",")

RECURSIVE SkipSpace(_, _)
SkipSpace(chars, i) ==
    IF i <= Len(chars) /\ chars[i] = " " THEN SkipSpace(chars, i + 1) ELSE i

RECURSIVE ReadDigits(_, _, _, _)
\* <<value, seen>>: the integer read from position i on, and whether a digit was read
ReadDigits(chars, i, acc, seen) ==
    IF i <= Len(chars) /\ chars[i] \in Digits
    THEN ReadDigits(chars, i + 1, acc * 10 + DigitVal(chars[i]), TRUE)
    ELSE <<acc, seen>>

\* parseFloat on strings without '.', 'e' or 'Infinity': leading blanks, an
\* optional sign, the longest run of digits; NaN when there is no digit.
ParseFloat(chars) ==
    LET i == SkipSpace(chars, 1)
        neg == i <= Len(chars) /\ chars[i] = "-"
        pos == i <= Len(chars) /\ chars[i] = "+"
        j == IF neg \/ pos THEN i + 1 ELSE i
        r == ReadDigits(chars, j, 0, FALSE)
    IN  IF r[2] THEN Num(IF neg THEN -r[1] ELSE r[1]) ELSE NaN

\* typeof value === 'string' ? parseFloat(value.replace(/,/g, '')) : value
ToNumber(value) ==
    IF value.t = "str" THEN ParseFloat(StripCommas(value.s)) ELSE value

RECURSIVE AggClosest(_, _, _, _)
\* the for-loop of normalizeAggLimit from option i on: <<closest, minDiff>>
AggClosest(v, i, closest, minDiff) ==
    IF i > Len(AGG_LIMIT_OPTIONS) THEN <<closest, minDiff>>
    ELSE LET option == AGG_LIMIT_OPTIONS[i]
             diff == Abs(v - option)
         IN  IF diff < minDiff
             THEN AggClosest(v, i + 1, option, diff)
             ELSE AggClosest(v, i + 1, closest, minDiff)

RECURSIVE AggClosestTieHigh(_, _, _, _)
AggClosestTieHigh(v, i, closest, minDiff) ==
    IF i > Len(AGG_LIMIT_OPTIONS) THEN <<closest, minDiff>>
    ELSE LET option == AGG_LIMIT_OPTIONS[i]
             diff == Abs(v - option)
         IN  IF diff <= minDiff
             THEN AggClosestTieHigh(v, i + 1, option, diff)
             ELSE AggClosestTieHigh(v, i + 1, closest, minDiff)

\* A note is a record: its kind, the numbers a and b its text quotes, and the
\* address who it names.
Note(kind, a, b, who) == [kind |-> kind, a |-> a, b |-> b, who |-> who]
\* "Aggregate limit requested (v) exceeds maximum allowed. Set to $3,000,000."
AggNoteClamp(v) == Note("AggLimitExceedsMaximum", v, AggMax, "")
\* "Aggregate limit requested (v) does not match available options. Adjusted to ..."
AggNoteAdjust(v, closest) == Note("AggLimitAdjusted", v, closest, "")

\* the guard of the cap branch
AggExceedsMaxGe(numValue) == numValue >= AggMax
AggExceedsMax(numValue) == numValue > AggMax

\* whether the snapped value gets a note
AggAdjustedAlways(closest, numValue) == TRUE
AggAdjusted(closest, numValue) == closest # numValue

AggSnapTieHigh(numValue) ==
    AggClosestTieHigh(numValue, 1, AGG_LIMIT_OPTIONS[1],
                      Abs(numValue - AGG_LIMIT_OPTIONS[1]))[1]
\* "Find closest matching value"
AggSnap(numValue) ==
    AggClosest(numValue, 1, AGG_LIMIT_OPTIONS[1], Abs(numValue - AGG_LIMIT_OPTIONS[1]))[1]

\* normalizeAggLimit(value, notes): [value, notes], notes being the list after the call
normalizeAggLimit(value, notes) ==
    IF value.t = "null" THEN [value |-> 0, notes |-> notes]
    ELSE LET numValue == ToNumber(value) IN
         IF numValue.t = "nan" \/ numValue.n <= 0 THEN [value |-> 0, notes |-> notes]
         ELSE IF AggExceedsMax(numValue.n)
         THEN [value |-> AggMax, notes |-> Append(notes, AggNoteClamp(numValue.n))]
         ELSE LET closest == AggSnap(numValue.n) IN
              [value |-> closest,
               notes |-> IF AggAdjusted(closest, numValue.n)
                         THEN Append(notes, AggNoteAdjust(numValue.n, closest))
                         ELSE notes]

RECURSIVE RetClosest(_, _, _, _)
\* the for-loop of normalizeRetention; closest = 0 stands for null, and
\* minDiff = -1 for Infinity
RetClosest(v, i, closest, minDiff) ==
    IF i > Len(RETENTION_OPTIONS) THEN <<closest, minDiff>>
    ELSE LET option == RETENTION_OPTIONS[i]
             diff == Abs(v - option)
         IN  IF minDiff = -1 \/ diff < minDiff
             THEN RetClosest(v, i + 1, option, diff)
             ELSE RetClosest(v, i + 1, closest, minDiff)

\* minDiff <= Math.max(numValue * 0.1, 1000), in tenths to stay in the integers
RetWithinThresholdMin(minDiff, numValue) ==
    10 * minDiff <= (IF numValue <= 10 * RetentionFloor THEN numValue ELSE 10 * RetentionFloor)
RetWithinThreshold(minDiff, numValue) ==
    10 * minDiff <= Max(numValue, 10 * RetentionFloor)

\* normalizeRetention(value): a number value, or Null
normalizeRetention(value) ==
    IF value.t = "null" THEN Null
    ELSE LET numValue == ToNumber(value) IN
         IF numValue.t = "nan" \/ numValue.n <= 0 THEN Null
         ELSE LET r == RetClosest(numValue.n, 1, 0, -1) IN
              IF r[1] # 0 /\ RetWithinThreshold(r[2], numValue.n)
              THEN Num(r[1])
              ELSE Null

(***************************************************************************)
(* SpecNorm: a normalizer is applied to a bounded input, then applied      *)
(* again to its own result.                                                *)
(***************************************************************************)
AggTiers == Range(AGG_LIMIT_OPTIONS)
RetTiers == Range(RETENTION_OPTIONS)

Midpoints(opts) == {(opts[i] + opts[i + 1]) \div 2 : i \in 1..(Len(opts) - 1)}

\* probe points of normalizeAggLimit: the tiers, the ties between two tiers,
\* zero, and values beyond the cap
AggProbes == AggTiers \cup Midpoints(AGG_LIMIT_OPTIONS) \cup {0, 1999999, 5000000}

\* probe points of normalizeRetention: the tiers, the ties, the edges of the
\* acceptance window on both sides of each tier, and far-off values
RetProbes ==
    RetTiers \cup Midpoints(RETENTION_OPTIONS)
      \cup {t + RetentionFloor : t \in RetTiers} \cup {t - RetentionFloor : t \in RetTiers}
      \cup {(10 * t) \div 9 : t \in RetTiers} \cup {(10 * t) \div 11 : t \in RetTiers}
      \cup {0, 50, 5200, 100000000}

Around(probes) == {p + d : p \in probes, d \in (0 - Delta)..Delta}

\* string inputs, with the number each one denotes (NaN: it denotes none)
StrSamples ==
    { [chars |-> <<"1", ",", "0", "0", "0", ",", "0", "0", "0">>, means |-> Num(1000000)],
      [chars |-> <<"4", ",", "0", "0", "0", ",", "0", "0", "0">>, means |-> Num(4000000)],
      [chars |-> <<"7", "5", "0", "0", "0">>, means |-> Num(75000)],
      [chars |-> <<"5", ",", "2", "0", "0">>, means |-> Num(5200)],
      [chars |-> <<" ", "2", "5", "0", "0">>, means |-> Num(2500)],
      [chars |-> <<"-", "5">>, means |-> Num(-5)],
      [chars |-> <<"0">>, means |-> Num(0)],
      [chars |-> <<"a", "b", "c">>, means |-> NaN],
      [chars |-> <<>>, means |-> NaN] }

\* the number an input denotes: itself, or what the string sample denotes
Meaning(value) ==
    IF value.t = "str"
    THEN (CHOOSE x \in StrSamples : x.chars = value.s).means
    ELSE value

NormInputs(f) ==
    {Null, NaN} \cup {Str(x.chars) : x \in StrSamples}
      \cup {Num(k) : k \in Around(IF f = "agg" THEN AggProbes ELSE RetProbes)}

\* notes already in the list: the extraction service's own
NoteTexts == {Note("service", 1, 0, ""), Note("service", 2, 0, "")}
SeqsUpTo(S, k) == UNION {[1..m -> S] : m \in 0..k}
PriorNotes == SeqsUpTo(NoteTexts, MaxPriorNotes)

InitNormVars ==
    /\ npc = "init"
    /\ nfun \in {"agg", "ret"}
    /\ nin \in NormInputs(nfun)
    /\ nnotes0 \in (IF nfun = "agg" THEN PriorNotes ELSE {<<>>})
    /\ nout = Null
    /\ nnotes = nnotes0
    /\ nout2 = Null
    /\ nnotes2 = nnotes0

IdleNormVars ==
    /\ npc = "off" /\ nfun = "agg" /\ nin = Null /\ nnotes0 = <<>> /\ nout = Null
    /\ nnotes = <<>> /\ nout2 = Null /\ nnotes2 = <<>>

CallNormalizeAggLimit ==
    /\ npc = "init" /\ nfun = "agg"
    /\ LET r == normalizeAggLimit(nin, nnotes0) IN
         /\ nout' = Num(r.value)
         /\ nnotes' = r.notes
         /\ nnotes2' = r.notes
    /\ npc' = "once"
    /\ UNCHANGED <<nfun, nin, nnotes0, nout2, pvars, avars, xvars>>

CallNormalizeRetention ==
    /\ npc = "init" /\ nfun = "ret"
    /\ nout' = normalizeRetention(nin)
    /\ npc' = "once"
    /\ UNCHANGED <<nfun, nin, nnotes0, nnotes, nout2, nnotes2, pvars, avars, xvars>>

RecallNormalizeAggLimit ==
    /\ npc = "once" /\ nfun = "agg"
    /\ LET r == normalizeAggLimit(nout, nnotes) IN
         /\ nout2' = Num(r.value)
         /\ nnotes2' = r.notes
    /\ npc' = "twice"
    /\ UNCHANGED <<nfun, nin, nnotes0, nout, nnotes, pvars, avars, xvars>>

RecallNormalizeRetention ==
    /\ npc = "once" /\ nfun = "ret"
    /\ nout2' = normalizeRetention(nout)
    /\ npc' = "twice"
    /\ UNCHANGED <<nfun, nin, nnotes0, nout, nnotes, nnotes2, pvars, avars, xvars>>

NextNorm ==
    \/ CallNormalizeAggLimit
    \/ CallNormalizeRetention
    \/ RecallNormalizeAggLimit
    \/ RecallNormalizeRetention


\* the tier of S nearest to v, the lower one when two are equally near
NearestLow(v, S) ==
    CHOOSE t \in S : \A u \in S : Abs(v - t) < Abs(v - u) \/ (Abs(v - t) = Abs(v - u) /\ t <= u)

AggCalled == npc # "init" /\ nfun = "agg"
RetCalled == npc # "init" /\ nfun = "ret"

\* C1: for a positive number v, normalizeAggLimit returns 3,000,000 when
\* v > 3,000,000 and otherwise the tier nearest to v, the lower tier on a tie.
C1_AggNearestTier ==
    (AggCalled /\ nin.t = "num" /\ nin.n > 0) =>
        nout = Num(IF nin.n > 3000000 THEN 3000000 ELSE NearestLow(nin.n, AggTiers))

\* a tie (75,000 between 50,000 and 100,000) resolved to the lower tier
C1_Witness == AggCalled /\ nin = Num(75000) /\ nout = Num(50000)

IsPrefixOf(p, q) == Len(p) <= Len(q) /\ SubSeq(q, 1, Len(p)) = p

\* the input denotes no positive number: unknown, non-numeric or non-positive
NotPositive(value) == value.t = "null" \/ Meaning(value).t = "nan" \/ Meaning(value).n <= 0

\* C2: normalizeAggLimit appends exactly one note when the value it returns
\* differs from the positive number it was given and none when it is the same;
\* for unknown, non-numeric or non-positive input it returns 0 and appends
\* nothing; the notes already in the list stay as they were, in order.
C2_AggNotes ==
    AggCalled =>
        /\ IsPrefixOf(nnotes0, nnotes)
        /\ IF NotPositive(nin)
           THEN nout = Num(0) /\ nnotes = nnotes0
           ELSE Len(nnotes) = Len(nnotes0) + (IF nout # Meaning(nin) THEN 1 ELSE 0)

\* a clamp of 5,000,000 appended one note after the one already there
C2_Witness ==
    /\ AggCalled /\ nin = Num(5000000) /\ nout = Num(3000000)
    /\ Len(nnotes0) = 1 /\ Len(nnotes) = 2 /\ nnotes[1] = nnotes0[1]

\* C3: for a positive number v, normalizeRetention returns the tier t nearest
\* to v (the lower on a tie) if |v - t| <= max(v/10, 1000), and unknown otherwise;
\* for unknown or non-positive input it returns unknown.  The result is
\* always unknown or a tier.
C3_RetentionWindow ==
    RetCalled =>
        /\ nout = Null \/ (nout.t = "num" /\ nout.n \in RetTiers)
        /\ IF NotPositive(nin)
           THEN nout = Null
           ELSE LET v == Meaning(nin).n
                    t == NearestLow(v, RetTiers)
                IN  nout = IF 10 * Abs(v - t) <= Max(v, 10000) THEN Num(t) ELSE Null

\* 111,112 is 11,112 away from 100,000, just beyond a tenth of itself
C3_Witness == RetCalled /\ nin = Num(111112) /\ nout = Null

\* C4: both normalizers are idempotent: applied to a value it returned, a
\* normalizer returns that value again, and the second normalizeAggLimit run
\* appends no note.
C4_Idempotent ==
    npc = "twice" => (nout2 = nout /\ (nfun = "agg" => nnotes2 = nnotes))

\* the clamped 3,000,000 normalized again, with no second note
C4_Witness ==
    /\ npc = "twice" /\ nfun = "agg" /\ nin = Num(5000000)
    /\ nout = Num(3000000) /\ nout2 = Num(3000000) /\ Len(nnotes2) = Len(nnotes0) + 1

(***************************************************************************)
(* parseInsurancePdf and the summarization gate.                           *)
(*                                                                         *)
(* A text is a record: where it comes from (src), its length in            *)
(* characters and whether it is blank (empty after trim()).  A nullable    *)
(* string is a string, JNull standing for null/undefined.  A message of    *)
(* an Error is the sequence of its characters, so that includes() is the   *)
(* substring test it is in the code.                                       *)
(***************************************************************************)
EMAIL_SUMMARY_THRESHOLD == 10000

\* ---- bounds -------------------------------------------------------------
LenSpread == 1      \* body lengths lie within LenSpread of the threshold
MaxPdfs == 1        \* longest PDF sequence handed to parseInsurancePdf

JNull == "<null>"
\* JavaScript truthiness of a nullable string
Truthy(str) == str # JNull /\ str # ""

Text(src, len, blank) == [src |-> src, len |-> len, blank |-> blank]
EmptyText == Text("", 0, TRUE)
\* emailBody && emailBody.trim().length > 0
HasContent(text) == text.len > 0 /\ ~text.blank

\* "No content provided. Please upload PDF applications OR an Email file."
MsgNoContent ==
    <<"N","o"," ","c","o","n","t","e","n","t"," ","p","r","o","v","i","d","e","d","."," ","P",
      "l","e","a","s","e"," ","u","p","l","o","a","d"," ","P","D","F"," ","a","p","p","l","i",
      "c","a","t","i","o","n","s"," ","O","R"," ","a","n"," ","E","m","a","i","l"," ","f","i",
      "l","e",".">>

\* "No text response from Gemini"
MsgNoText ==
    <<"N","o"," ","t","e","x","t"," ","r","e","s","p","o","n","s","e"," ","f","r","o","m"," ",
      "G","e","m","i","n","i">>

\* "Content too large (Token Limit Exceeded). Please try removing some PDF files or use a shorter email."
MsgTooLarge ==
    <<"C","o","n","t","e","n","t"," ","t","o","o"," ","l","a","r","g","e"," ","(","T","o","k",
      "e","n"," ","L","i","m","i","t"," ","E","x","c","e","e","d","e","d",")","."," ","P","l",
      "e","a","s","e"," ","t","r","y"," ","r","e","m","o","v","i","n","g"," ","s","o","m","e",
      " ","P","D","F"," ","f","i","l","e","s"," ","o","r"," ","u","s","e"," ","a"," ","s","h",
      "o","r","t","e","r"," ","e","m","a","i","l",".">>

\* "API authentication error. Please check your API key and try again."
MsgAuth ==
    <<"A","P","I"," ","a","u","t","h","e","n","t","i","c","a","t","i","o","n"," ","e","r","r",
      "o","r","."," ","P","l","e","a","s","e"," ","c","h","e","c","k"," ","y","o","u","r"," ",
      "A","P","I"," ","k","e","y"," ","a","n","d"," ","t","r","y"," ","a","g","a","i","n",".">>

\* "Network error. Please check your internet connection and try again."
MsgNetwork ==
    <<"N","e","t","w","o","r","k"," ","e","r","r","o","r","."," ","P","l","e","a","s","e"," ",
      "c","h","e","c","k"," ","y","o","u","r"," ","i","n","t","e","r","n","e","t"," ","c","o",
      "n","n","e","c","t","i","o","n"," ","a","n","d"," ","t","r","y"," ","a","g","a","i","n",
      ".">>

\* "Failed to process documents: Unknown error occurred"
MsgUnknown ==
    <<"F","a","i","l","e","d"," ","t","o"," ","p","r","o","c","e","s","s"," ","d","o","c","u",
      "m","e","n","t","s",":"," ","U","n","k","n","o","w","n"," ","e","r","r","o","r"," ","o",
      "c","c","u","r","r","e","d">>

\* "Resource exhausted: quota exceeded"
MsgSvcQuota ==
    <<"R","e","s","o","u","r","c","e"," ","e","x","h","a","u","s","t","e","d",":"," ","q","u",
      "o","t","a"," ","e","x","c","e","e","d","e","d">>

\* "API key not valid"
MsgSvcKey ==
    <<"A","P","I"," ","k","e","y"," ","n","o","t"," ","v","a","l","i","d">>

\* "fetch failed"
MsgSvcFetch ==
    <<"f","e","t","c","h"," ","f","a","i","l","e","d">>

\* "Internal error"
MsgSvcOther ==
    <<"I","n","t","e","r","n","a","l"," ","e","r","r","o","r">>

Pat_token == <<"t","o","k","e","n">>
Pat_limit == <<"l","i","m","i","t">>
Pat_quota == <<"q","u","o","t","a">>
Pat_API == <<"A","P","I">>
Pat_key == <<"k","e","y">>
Pat_authentication == <<"a","u","t","h","e","n","t","i","c","a","t","i","o","n">>
Pat_network == <<"n","e","t","w","o","r","k">>
Pat_fetch == <<"f","e","t","c","h">>
Pat_timeout == <<"t","i","m","e","o","u","t">>

RECURSIVE MatchAt(_, _, _, _)
MatchAt(msg, pat, at, k) ==
    IF k > Len(pat) THEN TRUE
    ELSE IF msg[at + k - 1] # pat[k] THEN FALSE
    ELSE MatchAt(msg, pat, at, k + 1)

\* String.prototype.includes
Includes(msg, pat) ==
    \E at \in 1..(Len(msg) - Len(pat) + 1) : MatchAt(msg, pat, at, 1)

\* the catch block of parseInsurancePdf: the message of the error it throws
\* for a caught Error with message msg
CatchMessage(msg) ==
    IF Includes(msg, Pat_token) \/ Includes(msg, Pat_limit) \/ Includes(msg, Pat_quota)
    THEN MsgTooLarge
    ELSE IF Includes(msg, Pat_API) \/ Includes(msg, Pat_key)
            \/ Includes(msg, Pat_authentication)
    THEN MsgAuth
    ELSE IF Includes(msg, Pat_network) \/ Includes(msg, Pat_fetch)
            \/ Includes(msg, Pat_timeout)
    THEN MsgNetwork
    ELSE msg

\* shouldSummarizeEmail
shouldSummarizeEmailGe(body) == body.len >= EMAIL_SUMMARY_THRESHOLD
shouldSummarizeEmail(body) == body.len > EMAIL_SUMMARY_THRESHOLD

\* "Validate inputs - Support Either/Or": TRUE when the call is refused
NoContentNever(base64DataArray, body) == FALSE
NoContent(base64DataArray, body) ==
    Len(base64DataArray) = 0 /\ ~HasContent(body)

\* the guard of the summarization branch
NeedsSummary(body, summarized) ==
    HasContent(body) /\ ~summarized /\ shouldSummarizeEmail(body)

\* ---- records --------------------------------------------------------------
\* The fields of QuoteRequestData the orchestrator reads or writes:
\*   broker_email, insured_name   nullable strings
\*   agg_limit, retention         number | string | null
\*   insured_contact              a group: present (FALSE: null/undefined) and
\*                                its preferred_method
\*   insured_location, claims,    groups: present, and one or two members
\*   website                      (address_city; claims_count; has_website,
\*                                domainName)
\*   parsing_notes                present (FALSE: null/undefined) and its items
Group(present, method) == [present |-> present, preferred_method |-> method]
NoGroup == Group(FALSE, JNull)
Location(present, city) == [present |-> present, address_city |-> city]
Claims(present, count) == [present |-> present, claims_count |-> count]
Website(present, has, domain) ==
    [present |-> present, has_website |-> has, domainName |-> domain]
Notes(present, items) == [present |-> present, items |-> items]
NoNotes == Notes(FALSE, <<>>)

SummaryKeys == {"broker_email", "insured_name", "agg_limit", "retention", "insured_contact",
                "insured_location", "claims", "website"}
GroupKeys == {"insured_contact", "insured_location", "claims", "website"}

\* the group of field key with every member null; present = FALSE stands for a
\* field that is null or not there at all
NullMembers(key, present) ==
    IF key = "insured_contact" THEN Group(present, JNull)
    ELSE IF key = "insured_location" THEN Location(present, JNull)
    ELSE IF key = "claims" THEN Claims(present, Null)
    ELSE Website(present, JNull, JNull)
StringKeys == {"broker_email", "insured_name"}

\* value === null || value === undefined, for the value of field key
IsNullish(key, value) ==
    IF key \in GroupKeys THEN ~value.present
    ELSE IF key \in StringKeys THEN value = JNull
    ELSE value.t = "null"

\* typeof value === 'object'
TypeofObject(key, value) == key \in GroupKeys \/ IsNullish(key, value)

\* x || null, as summarizeEmail applies it to the fields of the service's answer
OrNull(key, value) ==
    IF key \in GroupKeys THEN (IF value.present THEN value ELSE NullMembers(key, TRUE))
    ELSE IF key \in StringKeys THEN (IF Truthy(value) THEN value ELSE JNull)
    ELSE IF value.t = "num" /\ value.n # 0 THEN value ELSE Null

\* summarizeEmail: the EmailSummary built from the parsed answer of the service
EmailSummaryOf(answer) ==
    [summary |-> answer.summary,
     extractedFields |-> [key \in SummaryKeys |-> OrNull(key, answer.fields[key])]]

NoFields == [present |-> FALSE,
             f |-> [key \in SummaryKeys |->
                      IF key \in GroupKeys THEN NullMembers(key, FALSE)
                      ELSE IF key \in StringKeys THEN JNull ELSE Null]]
SomeFields(f) == [present |-> TRUE, f |-> f]

\* ---- the extraction request ---------------------------------------------
NoRequest == [pdfs |-> <<>>, hasEmail |-> FALSE, text |-> EmptyText, label |-> "",
              fromLine |-> JNull, subjectLine |-> JNull]

\* "Construct parts for files" ... "Add email body context if provided"
BuildRequest(a, content) ==
    IF HasContent(content)
    THEN [pdfs |-> a.base64DataArray,
          hasEmail |-> TRUE,
          text |-> content,
          label |-> IF a.isEmailSummarized \/ shouldSummarizeEmail(a.emailBody)
                    THEN "EMAIL SUMMARY" ELSE "EMAIL BODY",
          fromLine |-> IF a.emailMetadata.present /\ Truthy(a.emailMetadata.from)
                       THEN a.emailMetadata.from ELSE JNull,
          subjectLine |-> IF a.emailMetadata.present /\ Truthy(a.emailMetadata.subject)
                          THEN a.emailMetadata.subject ELSE JNull]
    ELSE [NoRequest EXCEPT !.pdfs = a.base64DataArray]

\* ---- post-processing ------------------------------------------------------
\* emailMetadata?.from
MetaFrom(meta) == IF meta.present THEN meta.from ELSE JNull

\* "Broker email extracted from email sender (From header): ..."
NoteSender(who) == Note("BrokerFromSender", 0, 0, who)
\* "Email was summarized due to length, key fields were pre-extracted"
NoteSummarized == Note("EmailSummarized", 0, 0, "")

\* a note put in front of the list
PushNoteFront(data, note) ==
    [data EXCEPT !.parsing_notes = Notes(TRUE, <<note>> \o data.parsing_notes.items)]
\* extractedData.parsing_notes.push(note), after "if (!parsing_notes) parsing_notes = []"
PushNote(data, note) ==
    [data EXCEPT !.parsing_notes = Notes(TRUE, Append(data.parsing_notes.items, note))]

\* "Pre-populate broker_email from email metadata if available"
ApplySenderNever(data, meta) == data
ApplySender(data, meta) ==
    IF Truthy(MetaFrom(meta))
    THEN PushNote([data EXCEPT !.broker_email = MetaFrom(meta)], NoteSender(MetaFrom(meta)))
    ELSE data

\* a merge in which every non-null value of the summary wins
MergeKeyOverwrite(key, value, currentValue, meta) ==
    IF IsNullish(key, value) THEN currentValue ELSE value
\* one round of the forEach over the keys of emailSummaryFields
MergeKey(key, value, currentValue, meta) ==
    IF IsNullish(key, value) THEN currentValue
    ELSE IF key = "broker_email" /\ Truthy(MetaFrom(meta)) THEN currentValue
    ELSE IF IsNullish(key, currentValue)
            \/ (TypeofObject(key, value) /\ TypeofObject(key, currentValue))
    THEN value
    ELSE currentValue

\* "Merge email summary fields if available"
MergeSummary(data, fields, meta) ==
    IF fields.present
    THEN PushNote([key \in DOMAIN data |->
                     IF key \in SummaryKeys
                     THEN MergeKey(key, fields.f[key], data[key], meta)
                     ELSE data[key]],
                  NoteSummarized)
    ELSE data

\* "Normalize agg_limit and retention values": agg_limit
NormalizeAgg(data) ==
    IF data.agg_limit.t # "null"
    THEN LET normalized == normalizeAggLimit(data.agg_limit, data.parsing_notes.items) IN
         [data EXCEPT !.agg_limit = Num(normalized.value),
                      !.parsing_notes = Notes(TRUE, normalized.notes)]
    ELSE data

\* "Normalize agg_limit and retention values": retention
NormalizeRet(data) ==
    IF data.retention.t # "null"
    THEN LET normalized == normalizeRetention(data.retention) IN
         IF normalized # Null THEN [data EXCEPT !.retention = normalized] ELSE data
    ELSE data

\* a default applied to a missing group only
DefaultContactMissingOnly(data) ==
    IF ~data.insured_contact.present
    THEN [data EXCEPT !.insured_contact = Group(TRUE, "Email")]
    ELSE data
\* "Default preferred_method to "Email" if not set"
DefaultContact(data) ==
    IF ~data.insured_contact.present
    THEN [data EXCEPT !.insured_contact = Group(TRUE, "Email")]
    ELSE IF ~Truthy(data.insured_contact.preferred_method)
    THEN [data EXCEPT !.insured_contact.preferred_method = "Email"]
    ELSE data

\* the record parseInsurancePdf returns for the extracted record
PostProcess(extractedData, fields, meta) ==
    DefaultContact(NormalizeRet(NormalizeAgg(
        MergeSummary(ApplySender(extractedData, meta), fields, meta))))

\* ---- the steps of parseInsurancePdf ---------------------------------------
NoArgs == [base64DataArray |-> <<>>, emailBody |-> EmptyText, isEmailSummarized |-> FALSE,
           emailMetadata |-> [present |-> FALSE, from |-> JNull, subject |-> JNull]]
NoData == [broker_email |-> JNull, insured_name |-> JNull, agg_limit |-> Null,
           retention |-> Null, insured_contact |-> NoGroup,
           insured_location |-> NullMembers("insured_location", FALSE),
           claims |-> NullMembers("claims", FALSE),
           website |-> NullMembers("website", FALSE),
           parsing_notes |-> NoNotes]

IdleParseVars ==
    /\ pc = "idle" /\ args = NoArgs /\ emailContent = EmptyText
    /\ emailSummaryFields = NoFields /\ sumOutcome = "none" /\ request = NoRequest
    /\ events = <<>> /\ rawData = NoData /\ result = NoData /\ error = <<>>

\* parseInsurancePdf(a) up to its first await: the validation, then either the
\* summarization call or, with the request built, the extraction call
ParseBegin(a) ==
    /\ args' = a
    /\ emailContent' = a.emailBody
    /\ emailSummaryFields' = NoFields
    /\ sumOutcome' = "none"
    /\ rawData' = NoData
    /\ result' = NoData
    /\ IF NoContent(a.base64DataArray, a.emailBody)
       THEN /\ pc' = "failed"
            /\ error' = CatchMessage(MsgNoContent)
            /\ events' = <<>>
            /\ request' = NoRequest
       ELSE IF NeedsSummary(a.emailBody, a.isEmailSummarized)
       THEN /\ pc' = "summarizing"
            /\ error' = <<>>
            /\ events' = <<"summarize_call">>
            /\ request' = NoRequest
       ELSE /\ pc' = "extracting"
            /\ error' = <<>>
            /\ events' = <<"extract_call">>
            /\ request' = BuildRequest(a, a.emailBody)

\* summarizeEmail resolves: the summary replaces the body, the fields are kept,
\* and the extraction call is issued
SummarizeResolves(answer) ==
    /\ pc = "summarizing"
    /\ LET summary == EmailSummaryOf(answer) IN
         /\ emailContent' = summary.summary
         /\ emailSummaryFields' = SomeFields(summary.extractedFields)
         /\ request' = BuildRequest(args, summary.summary)
    /\ sumOutcome' = "ok"
    /\ events' = events \o <<"summarize_done", "extract_call">>
    /\ pc' = "extracting"
    /\ UNCHANGED <<args, rawData, result, error>>

\* a rejected summarization aborting the call
SummarizeRejectsAborts ==
    /\ pc = "summarizing"
    /\ sumOutcome' = "failed"
    /\ error' = MsgUnknown
    /\ events' = Append(events, "summarize_failed")
    /\ pc' = "failed"
    /\ UNCHANGED <<args, emailContent, emailSummaryFields, request, rawData, result>>

\* summarizeEmail rejects (the service threw, or answered without text): the
\* catch logs a warning and the extraction call is issued with the full body
SummarizeRejects ==
    /\ pc = "summarizing"
    /\ sumOutcome' = "failed"
    /\ request' = BuildRequest(args, emailContent)
    /\ events' = events \o <<"summarize_failed", "extract_call">>
    /\ pc' = "extracting"
    /\ UNCHANGED <<args, emailContent, emailSummaryFields, rawData, result, error>>

\* the extraction call resolves with the text of a record
ExtractResolves(data) ==
    /\ pc = "extracting"
    /\ rawData' = data
    /\ result' = PostProcess(data, emailSummaryFields, args.emailMetadata)
    /\ events' = Append(events, "extract_done")
    /\ pc' = "done"
    /\ UNCHANGED <<args, emailContent, emailSummaryFields, sumOutcome, request, error>>

\* an answer without text followed by a second extraction call
ExtractNoTextRetries ==
    /\ pc = "extracting"
    /\ events' = events \o <<"extract_failed", "extract_call">>
    /\ UNCHANGED <<pc, args, emailContent, emailSummaryFields, sumOutcome, request, rawData,
                   result, error>>
\* the extraction call resolves without text: "No text response from Gemini"
ExtractNoText ==
    /\ pc = "extracting"
    /\ error' = CatchMessage(MsgNoText)
    /\ events' = Append(events, "extract_failed")
    /\ pc' = "failed"
    /\ UNCHANGED <<args, emailContent, emailSummaryFields, sumOutcome, request, rawData,
                   result>>

\* the extraction call rejects with an Error whose message is msg
ExtractRejects(msg) ==
    /\ pc = "extracting"
    /\ error' = CatchMessage(msg)
    /\ events' = Append(events, "extract_failed")
    /\ pc' = "failed"
    /\ UNCHANGED <<args, emailContent, emailSummaryFields, sumOutcome, request, rawData,
                   result>>

\* the extraction call rejects with a value that is no Error
ExtractRejectsNonError ==
    /\ pc = "extracting"
    /\ error' = MsgUnknown
    /\ events' = Append(events, "extract_failed")
    /\ pc' = "failed"
    /\ UNCHANGED <<args, emailContent, emailSummaryFields, sumOutcome, request, rawData,
                   result>>

(***************************************************************************)
(* SpecParse: parseInsurancePdf called once with bounded arguments, the    *)
(* two services answering from bounded sets.                               *)
(***************************************************************************)
SenderAddress == "agent@brokerage.com"

BodyTexts ==
    {EmptyText, Text("body", 3, TRUE), Text("body", EMAIL_SUMMARY_THRESHOLD + 1, TRUE),
     Text("body", 3, FALSE)}
      \cup {Text("body", len, FALSE) :
              len \in (EMAIL_SUMMARY_THRESHOLD - LenSpread)..(EMAIL_SUMMARY_THRESHOLD + LenSpread)}

PdfSeqs == SeqsUpTo({"JVBERi0="}, MaxPdfs)

MetaSet ==
    {NoArgs.emailMetadata,
     [present |-> TRUE, from |-> JNull, subject |-> "Test Submission"],
     [present |-> TRUE, from |-> SenderAddress, subject |-> JNull]}

ArgSet ==
    [base64DataArray : PdfSeqs, emailBody : BodyTexts, isEmailSummarized : BOOLEAN,
     emailMetadata : MetaSet]

ServiceNotes == {NoNotes} \cup {Notes(TRUE, q) : q \in SeqsUpTo({Note("service", 1, 0, "")}, MaxPriorNotes)}

\* answers of the extraction service
ExtractedSet ==
    [broker_email : {JNull, "producer@agency.com"},
     insured_name : {JNull, "Acme Corp"},
     agg_limit : {Null, Num(1000000), Num(5000000)},
     retention : {Null, Num(5200), Num(37500)},
     insured_contact : {NoGroup, Group(TRUE, JNull), Group(TRUE, "Phone")},
     insured_location : {Location(TRUE, "Austin")},
     claims : {Claims(TRUE, Num(2))},
     website : {Website(TRUE, "true", "acme.com")},
     parsing_notes : ServiceNotes]

\* answers of the summarization service
SummaryTexts == {EmptyText, Text("summary", 2, TRUE), Text("summary", 800, FALSE)}
AnswerSet ==
    [summary : SummaryTexts,
     fields : [broker_email : {JNull, "broker@summary.com"},
               insured_name : {JNull, "Acme Inc"},
               agg_limit : {Null, Num(0), Num(250000)},
               retention : {Null, Num(30000000)},
               insured_contact : {NoGroup, Group(TRUE, JNull), Group(TRUE, "Phone")},
               insured_location : {NullMembers("insured_location", FALSE)},
               claims : {NullMembers("claims", FALSE)},
               website : {NullMembers("website", FALSE)}]]

ServiceErrors == {MsgSvcQuota, MsgSvcKey, MsgSvcFetch, MsgSvcOther}

NoMetadata == NoArgs.emailMetadata
NoParsed == [present |-> FALSE, data |-> NoData]

IdleAppVars ==
    /\ isProcessing = FALSE /\ parsedData = NoParsed /\ appError = <<>>
    /\ emailBody = EmptyText /\ emailFileName = JNull /\ emailMetadata = NoMetadata
    /\ isEmailSummarized = FALSE /\ pdfFiles = <<>> /\ emailAttachments = <<>>
    /\ upPc = "idle" /\ anPc = "idle" /\ emailVia = "none" /\ anVia = "none"

\* the submission service not in use
IdlePayloadVars == ypc = "off" /\ quote = <<>> /\ payload = <<>>
\* no call of getAccessToken yet: the module-level cache as declared
IdleTokenVars ==
    /\ tenv = "prod" /\ cachedToken = JNull /\ tokenExpiry = 0 /\ cachedEnv = JNull
    /\ now = 0 /\ tcalls = <<>>
\* parseEmailFile not in use
IdleEmailVars == epc = "off" /\ eml = <<>> /\ brokerEmail = JNull
\* parseEmailFile's body and attachments not in use
IdleMimeVars == mpc = "off" /\ mime = <<>> /\ mailBody = <<>> /\ pdfAttachments = <<>>
\* no further invocation of handleAnalyze
\* QuoteForm not mounted
IdleFormVars ==
    /\ fpc = "off" /\ formData = <<>> /\ stats = [total |-> 0, filled |-> 0, percent |-> 0]
    /\ isSubmitting = FALSE /\ submitResult = JNull /\ showResult = FALSE
    /\ errorModalOpen = FALSE /\ submits = <<>>
IdleLaterVars == others = <<>> /\ IdleMimeVars /\ IdleFormVars
NoFileContent == [fromLine |-> JNull, body |-> EmptyText]
IdleOtherVars ==
    /\ IdlePayloadVars /\ IdleTokenVars /\ IdleEmailVars /\ fileContent = NoFileContent
    /\ IdleLaterVars

InitParse == IdleNormVars /\ IdleParseVars /\ IdleAppVars /\ IdleOtherVars

ParseStart ==
    /\ pc = "idle"
    /\ \E a \in ArgSet : ParseBegin(a)
    /\ UNCHANGED <<xvars, nvars, avars>>

SummarizeOk == (\E answer \in AnswerSet : SummarizeResolves(answer)) /\ UNCHANGED <<xvars, nvars, avars>>
SummarizeFails == SummarizeRejects /\ UNCHANGED <<xvars, nvars, avars>>
ExtractOk == (\E data \in ExtractedSet : ExtractResolves(data)) /\ UNCHANGED <<xvars, nvars, avars>>
ExtractEmpty == ExtractNoText /\ UNCHANGED <<xvars, nvars, avars>>
ExtractFails == (\E msg \in ServiceErrors : ExtractRejects(msg)) /\ UNCHANGED <<xvars, nvars, avars>>
ExtractFailsNonError == ExtractRejectsNonError /\ UNCHANGED <<xvars, nvars, avars>>

NextParse ==
    \/ ParseStart
    \/ SummarizeOk
    \/ SummarizeFails
    \/ ExtractOk
    \/ ExtractEmpty
    \/ ExtractFails
    \/ ExtractFailsNonError

SpecParse == InitParse /\ [][NextParse]_vars

InitNorm == InitNormVars /\ IdleParseVars /\ IdleAppVars /\ IdleOtherVars
SpecNorm == InitNorm /\ [][NextNorm]_vars

(***************************************************************************)
(* Properties of parseInsurancePdf (SpecParse).                            *)
(***************************************************************************)
Issued(call) == call \in Range(events)
IndexOf(e) == CHOOSE i \in 1..Len(events) : events[i] = e
ResultNotes == Range(result.parsing_notes.items)

\* C5: when parseInsurancePdf succeeds and the metadata carries a sender
\* address, the returned broker_email is that address, whatever the extraction
\* and the partial record hold, and parsing_notes holds the override note
\* naming that address.
C5_SenderWins ==
    (pc = "done" /\ Truthy(MetaFrom(args.emailMetadata))) =>
        /\ result.broker_email = MetaFrom(args.emailMetadata)
        /\ NoteSender(MetaFrom(args.emailMetadata)) \in ResultNotes

\* the extraction and the partial record each named another address
C5_Witness ==
    /\ pc = "done" /\ MetaFrom(args.emailMetadata) = SenderAddress
    /\ rawData.broker_email = "producer@agency.com"
    /\ emailSummaryFields.present /\ emailSummaryFields.f.broker_email = "broker@summary.com"
    /\ result.broker_email = SenderAddress

\* C6: with no PDF and an empty or whitespace-only body parseInsurancePdf
\* fails with the validation error, issues neither call, and the validation
\* message reaches the caller unchanged.
C6_ValidationFirst ==
    (pc # "idle" /\ Len(args.base64DataArray) = 0
       /\ (args.emailBody.len = 0 \/ args.emailBody.blank)) =>
        /\ pc = "failed"
        /\ events = <<>>
        /\ error = MsgNoContent

\* a whitespace-only body and no PDF
C6_Witness ==
    /\ pc = "failed" /\ args.base64DataArray = <<>> /\ args.emailBody = Text("body", 3, TRUE)
    /\ error = MsgNoContent /\ events = <<>>

\* the summarization call, when issued, has completed before the extraction call
SummaryBeforeExtraction ==
    (Issued("summarize_call") /\ Issued("extract_call")) =>
        /\ IndexOf("summarize_call") < IndexOf("extract_call")
        /\ \E i \in 1..Len(events) :
             /\ events[i] \in {"summarize_done", "summarize_failed"}
             /\ i < IndexOf("extract_call")

\* C7 as stated: the summarization call is issued iff the body is non-empty,
\* the flag is false and the body is longer than 10,000 characters; it completes
\* before the extraction call; on success the request carries the summary text
\* instead of the body.
C7_AsStated ==
    pc # "idle" =>
        /\ Issued("summarize_call") <=>
             (args.emailBody.len > 0 /\ ~args.isEmailSummarized
                /\ args.emailBody.len > 10000)
        /\ SummaryBeforeExtraction
        /\ sumOutcome = "ok" => (request.hasEmail /\ request.text.src = "summary")

\* C7 (amended): the summarization call is issued iff the body has a
\* non-whitespace character, the flag is false and the body is longer than
\* 10,000 characters (not at exactly 10,000); it completes before the extraction
\* call; on success the request never carries the body: it carries the summary
\* text when the summary has a non-whitespace character and no email text
\* otherwise.
C7_SummarizeGate ==
    pc # "idle" =>
        /\ Issued("summarize_call") <=>
             (args.emailBody.len > 0 /\ ~args.emailBody.blank /\ ~args.isEmailSummarized
                /\ args.emailBody.len > 10000)
        /\ SummaryBeforeExtraction
        /\ sumOutcome = "ok" =>
             /\ request.text.src # "body"
             /\ request.hasEmail <=> (emailContent.len > 0 /\ ~emailContent.blank)
             /\ request.hasEmail => (request.text.src = "summary" /\ request.text = emailContent)

\* a body of 10,001 characters summarized, the summary sent for extraction
C7_Witness ==
    /\ pc = "extracting" /\ args.emailBody = Text("body", 10001, FALSE)
    /\ events = <<"summarize_call", "summarize_done", "extract_call">>
    /\ request.hasEmail /\ request.text = Text("summary", 800, FALSE)

\* C9: when the summarization call fails, parseInsurancePdf does not fail
\* because of it: the extraction call is issued with the full body as the
\* email text, and no partial record is merged (no 'Email was summarized' note).
C9_SummaryFailureTolerated ==
    sumOutcome = "failed" =>
        /\ Issued("extract_call")
        /\ request.hasEmail /\ request.text = args.emailBody
        /\ pc = "failed" => events[Len(events)] = "extract_failed"
        /\ emailSummaryFields = NoFields
        /\ pc = "done" =>
             /\ NoteSummarized \notin ResultNotes
             /\ result.insured_name = rawData.insured_name
             /\ result.insured_contact.present = TRUE

\* the summarization failed and the record came back from the full body
C9_Witness ==
    /\ pc = "done" /\ sumOutcome = "failed"
    /\ events = <<"summarize_call", "summarize_failed", "extract_call", "extract_done">>
    /\ request.text = Text("body", 10001, FALSE)

\* C10: in every record parseInsurancePdf returns, retention is unknown or a
\* member of the retention tier set.
C10_RetentionTierOrUnknown ==
    pc = "done" =>
        (result.retention = Null
           \/ (result.retention.t = "num" /\ result.retention.n \in RetTiers))

(***************************************************************************)
(* The App component: its state and its handlers.  A handler is one action *)
(* per stretch of code between two awaits; the values an async handler     *)
(* closed over are those of the render in which it was started.            *)
(***************************************************************************)
\* "Invalid email file format. Please ensure the file is a valid .eml file."
MsgEmailInvalid ==
    <<"I","n","v","a","l","i","d"," ","e","m","a","i","l"," ","f","i","l","e"," ","f","o","r",
      "m","a","t","."," ","P","l","e","a","s","e"," ","e","n","s","u","r","e"," ","t","h","e",
      " ","f","i","l","e"," ","i","s"," ","a"," ","v","a","l","i","d"," ",".","e","m","l"," ",
      "f","i","l","e",".">>
\* "Failed to process the documents. Please try again."
MsgAnalyzeDefault ==
    <<"F","a","i","l","e","d"," ","t","o"," ","p","r","o","c","e","s","s"," ","t","h","e"," ",
      "d","o","c","u","m","e","n","t","s","."," ","P","l","e","a","s","e"," ","t","r","y"," ",
      "a","g","a","i","n",".">>

\* ---- bounds -------------------------------------------------------------
MaxStaged == 2      \* most PDF files staged at once
MaxOthers == 1      \* most invocations of handleAnalyze started while another one runs

PdfNames == {"app.pdf", "attachment.pdf"}

\* a File object: its name, and who brought it, the user's selection or an
\* email (two File objects are never the same object)
File(name, via) == [name |-> name, via |-> via]
Names(files) == {f.name : f \in Range(files)}
UserFiles == {File(name, "user") : name \in PdfNames}
\* what extractFilename names a part that declares no file name
DefaultAttachment == File("attachment.pdf", "email")

\* what parseEmailFile resolves with: body, PDF attachments (by name), metadata
ParsedEmails ==
    [body : {Text("body", 3, FALSE), Text("body", EMAIL_SUMMARY_THRESHOLD, FALSE),
             Text("body", EMAIL_SUMMARY_THRESHOLD + 1, FALSE)},
     attachments : {<<>>, <<DefaultAttachment>>, <<DefaultAttachment, DefaultAttachment>>},
     metadata : {[present |-> TRUE, from |-> SenderAddress, subject |-> "Test Submission"],
                 [present |-> TRUE, from |-> JNull, subject |-> JNull]}]

\* the text after the first blank line of the raw text of the file
FallbackBodies == {EmptyText, Text("body", 3, FALSE), Text("body", EMAIL_SUMMARY_THRESHOLD + 1, FALSE)}

\* the raw text file.text() resolves with: the address of its "From:" line,
\* if it has one, and the text after the first blank line
RawTexts == [fromLine : {JNull, SenderAddress}, body : FallbackBodies]

\* the fallback's extraction from a text without MIME parts: the text after
\* the first blank line, trimmed, or untrimmed when trimming leaves nothing
\* (a Text records whether it is blank, and its length is kept)
FallbackBody(raw) == raw.body

\* answers of the two services while the App runs
AppExtractedSet ==
    {[NoData EXCEPT !.broker_email = "producer@agency.com", !.retention = Num(5200)],
     [NoData EXCEPT !.agg_limit = Num(5000000), !.insured_contact = Group(TRUE, "Phone")]}
AppAnswerSet ==
    {[summary |-> Text("summary", 800, FALSE),
      fields |-> [NoFields.f EXCEPT !.insured_name = "Acme Inc"]]}

\* prev.filter / [...prev, ...newFiles]
NotIn(files, prev) == SelectSeq(files, LAMBDA f : f.name \notin Names(prev))
Without(prev, attachments) == SelectSeq(prev, LAMBDA f : f.name \notin Names(attachments))

\* the call has returned or thrown: its arguments and locals are gone
ParseReturns ==
    /\ pc' = "idle" /\ args' = NoArgs /\ emailContent' = EmptyText
    /\ emailSummaryFields' = NoFields /\ sumOutcome' = "none" /\ request' = NoRequest
    /\ events' = <<>> /\ rawData' = NoData /\ result' = NoData /\ error' = <<>>

\* handleEmailSelect up to "await parseEmailFile(file)"; the input is rendered
\* while no email file is attached
HandleEmailSelect ==
    /\ upPc = "idle" /\ emailFileName = JNull /\ ~parsedData.present
    /\ isProcessing' = TRUE
    /\ appError' = <<>>
    /\ upPc' = "parsing"
    /\ fileContent' = NoFileContent
    /\ UNCHANGED <<parsedData, emailBody, emailFileName, emailMetadata, isEmailSummarized,
                   pdfFiles, emailAttachments, anPc, emailVia, anVia>>
    /\ UNCHANGED <<ovars, nvars, pvars>>

\* parseEmailFile resolved: the try block after the await, then finally
EmailParseResolves ==
    /\ upPc = "parsing"
    /\ \E parsed \in ParsedEmails :
         /\ Len(pdfFiles) + Len(NotIn(parsed.attachments, pdfFiles)) <= MaxStaged
         /\ emailFileName' = "submission.eml"
         /\ emailMetadata' = parsed.metadata
         /\ emailAttachments' = parsed.attachments
         /\ pdfFiles' = pdfFiles \o NotIn(parsed.attachments, pdfFiles)
         /\ emailBody' = parsed.body
         /\ isEmailSummarized' = shouldSummarizeEmail(parsed.body)
    /\ emailVia' = "parsed"
    /\ isProcessing' = FALSE
    /\ upPc' = "idle"
    /\ UNCHANGED <<parsedData, appError, anPc, anVia>>
    /\ UNCHANGED <<xvars, nvars, pvars>>

\* parseEmailFile rejected: the catch block up to "await file.text()"
EmailParseRejects ==
    /\ upPc = "parsing"
    /\ appError' = MsgEmailInvalid
    /\ upPc' = "reading"
    /\ UNCHANGED <<isProcessing, parsedData, emailBody, emailFileName, emailMetadata,
                   isEmailSummarized, pdfFiles, emailAttachments, anPc, emailVia, anVia>>
    /\ UNCHANGED <<xvars, nvars, pvars>>

\* file.text() resolved: the fallback extraction, then finally
FallbackResolves ==
    /\ upPc = "reading"
    /\ \E raw \in RawTexts :
         LET extractedBody == FallbackBody(raw) IN
         /\ fileContent' = raw
         /\ IF extractedBody.len > 0
            THEN /\ emailBody' = extractedBody
                 /\ emailFileName' = "submission.eml"
                 /\ emailVia' = "fallback"
            ELSE /\ emailBody' = EmptyText
                 /\ emailVia' = "none"
                 /\ UNCHANGED emailFileName
    /\ isEmailSummarized' = FALSE
    /\ isProcessing' = FALSE
    /\ upPc' = "idle"
    /\ UNCHANGED <<parsedData, appError, emailMetadata, pdfFiles, emailAttachments, anPc, anVia>>
    /\ UNCHANGED <<ovars, nvars, pvars>>

\* file.text() rejected: the inner catch, then finally
FallbackRejects ==
    /\ upPc = "reading"
    /\ emailFileName' = JNull
    /\ emailMetadata' = NoMetadata
    /\ emailAttachments' = <<>>
    /\ emailBody' = EmptyText
    /\ emailVia' = "none"
    /\ isEmailSummarized' = FALSE
    /\ isProcessing' = FALSE
    /\ upPc' = "idle"
    /\ UNCHANGED <<parsedData, appError, pdfFiles, anPc, anVia>>
    /\ UNCHANGED <<xvars, nvars, pvars>>

\* removeEmail; its button is rendered while an email file is attached
RemoveEmail ==
    /\ emailFileName # JNull /\ ~parsedData.present
    /\ emailBody' = EmptyText
    /\ emailFileName' = JNull
    /\ emailMetadata' = NoMetadata
    /\ isEmailSummarized' = FALSE
    /\ pdfFiles' = Without(pdfFiles, emailAttachments)
    /\ emailAttachments' = <<>>
    /\ emailVia' = "none"
    /\ UNCHANGED <<isProcessing, parsedData, appError, upPc, anPc, anVia>>
    /\ UNCHANGED <<xvars, nvars, pvars>>

\* handlePdfSelect, reached through FileUpload while not processing
HandlePdfSelect ==
    /\ ~isProcessing /\ ~parsedData.present
    /\ \E files \in SeqsUpTo(UserFiles, 1) :
         /\ files # <<>>
         /\ Len(pdfFiles) + Len(NotIn(files, pdfFiles)) <= MaxStaged
         /\ pdfFiles' = pdfFiles \o NotIn(files, pdfFiles)
    /\ appError' = <<>>
    /\ UNCHANGED <<isProcessing, parsedData, emailBody, emailFileName, emailMetadata,
                   isEmailSummarized, emailAttachments, upPc, anPc, emailVia, anVia>>
    /\ UNCHANGED <<xvars, nvars, pvars>>

\* removePdf(fileName)
RemovePdf ==
    /\ ~parsedData.present
    /\ \E fileName \in Names(pdfFiles) :
         pdfFiles' = SelectSeq(pdfFiles, LAMBDA f : f.name # fileName)
    /\ UNCHANGED <<isProcessing, parsedData, appError, emailBody, emailFileName,
                   emailMetadata, isEmailSummarized, emailAttachments, upPc, anPc, emailVia,
                   anVia>>
    /\ UNCHANGED <<xvars, nvars, pvars>>

\* the arguments handleAnalyze hands to parseInsurancePdf
AnalyzeArgs ==
    [base64DataArray |-> [i \in 1..Len(pdfFiles) |-> "JVBERi0="],
     emailBody |-> emailBody,
     isEmailSummarized |-> isEmailSummarized,
     emailMetadata |-> IF emailMetadata.present
                       THEN [present |-> TRUE, from |-> emailMetadata.from,
                             subject |-> emailMetadata.subject]
                       ELSE NoMetadata]

\* handleAnalyze up to "await Promise.all(base64Promises)"; the button is
\* disabled while processing or with nothing to analyze.  This is the
\* invocation whose call of parseInsurancePdf is followed step by step.
HandleAnalyze ==
    /\ anPc = "idle" /\ ~parsedData.present
    /\ ~isProcessing /\ ~(Len(pdfFiles) = 0 /\ emailBody.len = 0)
    /\ isProcessing' = TRUE
    /\ appError' = <<>>
    /\ args' = AnalyzeArgs
    /\ anVia' = emailVia
    /\ anPc' = "converting"
    /\ UNCHANGED <<parsedData, emailBody, emailFileName, emailMetadata, isEmailSummarized,
                   pdfFiles, emailAttachments, upPc, emailVia>>
    /\ UNCHANGED <<xvars, nvars, pc, emailContent, emailSummaryFields, sumOutcome, request, events,
                   rawData, result, error>>

\* the conversions resolved: parseInsurancePdf is called
ConvertResolves ==
    /\ anPc = "converting"
    /\ ParseBegin(args)
    /\ anPc' = "parsing"
    /\ UNCHANGED <<isProcessing, parsedData, appError, emailBody, emailFileName,
                   emailMetadata, isEmailSummarized, pdfFiles, emailAttachments, upPc,
                   emailVia, anVia, nvars, xvars>>

\* a conversion rejected: catch, then finally
ConvertRejects ==
    /\ anPc = "converting" /\ Len(args.base64DataArray) > 0
    /\ appError' = MsgAnalyzeDefault
    /\ isProcessing' = FALSE
    /\ anPc' = "idle"
    /\ anVia' = "none"
    /\ ParseReturns
    /\ UNCHANGED <<parsedData, emailBody, emailFileName, emailMetadata, isEmailSummarized,
                   pdfFiles, emailAttachments, upPc, emailVia, nvars, xvars>>

AppSummarizeOk ==
    /\ anPc = "parsing"
    /\ \E answer \in AppAnswerSet : SummarizeResolves(answer)
    /\ UNCHANGED <<xvars, nvars, avars>>
AppSummarizeFails == anPc = "parsing" /\ SummarizeRejects /\ UNCHANGED <<xvars, nvars, avars>>
AppExtractOk ==
    /\ anPc = "parsing"
    /\ \E data \in AppExtractedSet : ExtractResolves(data)
    /\ UNCHANGED <<xvars, nvars, avars>>
AppExtractEmpty == anPc = "parsing" /\ ExtractNoText /\ UNCHANGED <<xvars, nvars, avars>>
AppExtractFails == anPc = "parsing" /\ ExtractRejects(MsgSvcQuota) /\ UNCHANGED <<xvars, nvars, avars>>

\* parseInsurancePdf resolved: setParsedData, then finally
AnalyzeResolves ==
    /\ anPc = "parsing" /\ pc = "done"
    /\ parsedData' = [present |-> TRUE, data |-> result]
    /\ isProcessing' = FALSE
    /\ anPc' = "idle"
    /\ anVia' = "none"
    /\ ParseReturns
    /\ UNCHANGED <<appError, emailBody, emailFileName, emailMetadata, isEmailSummarized,
                   pdfFiles, emailAttachments, upPc, emailVia, nvars, xvars>>

\* parseInsurancePdf rejected: catch, then finally
AnalyzeRejects ==
    /\ anPc = "parsing" /\ pc = "failed"
    /\ appError' = error
    /\ isProcessing' = FALSE
    /\ anPc' = "idle"
    /\ anVia' = "none"
    /\ ParseReturns
    /\ UNCHANGED <<parsedData, emailBody, emailFileName, emailMetadata, isEmailSummarized,
                   pdfFiles, emailAttachments, upPc, emailVia, nvars, xvars>>

\* what parseInsurancePdf returns to a further invocation: of the arguments
\* it closed over only the PDFs are kept, so the record is post-processed
\* with or without a sender, and without summary fields
OtherResults ==
    {PostProcess([NoData EXCEPT !.insured_name = "Acme Corp"], NoFields, meta) :
       meta \in {NoMetadata,
                 [present |-> TRUE, from |-> SenderAddress, subject |-> "Test Submission"]}}

RemoveAt(q, i) == SubSeq(q, 1, i - 1) \o SubSeq(q, i + 1, Len(q))

\* handleAnalyze up to its first await, started while an earlier invocation has
\* not returned: the button is disabled by isProcessing alone
HandleAnalyzeAgain ==
    /\ anPc # "idle" /\ ~parsedData.present
    /\ ~isProcessing /\ ~(Len(pdfFiles) = 0 /\ emailBody.len = 0)
    /\ Len(others) < MaxOthers
    /\ isProcessing' = TRUE
    /\ appError' = <<>>
    /\ others' = Append(others, [pc |-> "converting",
                                  base64DataArray |-> AnalyzeArgs.base64DataArray])
    /\ UNCHANGED <<parsedData, emailBody, emailFileName, emailMetadata, isEmailSummarized,
                   pdfFiles, emailAttachments, upPc, anPc, emailVia, anVia>>
    /\ UNCHANGED <<yvars, tvars, evars, mvars, fvars, fileContent, nvars, pvars>>

\* its conversions resolved: it calls parseInsurancePdf
OtherConvertResolves ==
    /\ \E i \in 1..Len(others) :
         /\ others[i].pc = "converting"
         /\ others' = [others EXCEPT ![i].pc = "parsing"]
    /\ UNCHANGED <<yvars, tvars, evars, mvars, fvars, fileContent, nvars, pvars, avars>>

\* one of its conversions rejected: catch, then finally
OtherConvertRejects ==
    /\ \E i \in 1..Len(others) :
         /\ others[i].pc = "converting" /\ Len(others[i].base64DataArray) > 0
         /\ others' = RemoveAt(others, i)
    /\ appError' = MsgAnalyzeDefault
    /\ isProcessing' = FALSE
    /\ UNCHANGED <<parsedData, emailBody, emailFileName, emailMetadata, isEmailSummarized,
                   pdfFiles, emailAttachments, upPc, anPc, emailVia, anVia>>
    /\ UNCHANGED <<yvars, tvars, evars, mvars, fvars, fileContent, nvars, pvars>>

\* its parseInsurancePdf resolved: setParsedData, then finally
OtherAnalyzeResolves ==
    /\ \E i \in 1..Len(others) :
         /\ others[i].pc = "parsing"
         /\ \E data \in OtherResults : parsedData' = [present |-> TRUE, data |-> data]
         /\ others' = RemoveAt(others, i)
    /\ isProcessing' = FALSE
    /\ UNCHANGED <<appError, emailBody, emailFileName, emailMetadata, isEmailSummarized,
                   pdfFiles, emailAttachments, upPc, anPc, emailVia, anVia>>
    /\ UNCHANGED <<yvars, tvars, evars, mvars, fvars, fileContent, nvars, pvars>>

\* its parseInsurancePdf rejected: catch, then finally
OtherAnalyzeRejects ==
    /\ \E i \in 1..Len(others) :
         /\ others[i].pc = "parsing"
         /\ appError' = CatchMessage(MsgSvcQuota)
         /\ others' = RemoveAt(others, i)
    /\ isProcessing' = FALSE
    /\ UNCHANGED <<parsedData, emailBody, emailFileName, emailMetadata, isEmailSummarized,
                   pdfFiles, emailAttachments, upPc, anPc, emailVia, anVia>>
    /\ UNCHANGED <<yvars, tvars, evars, mvars, fvars, fileContent, nvars, pvars>>

\* "Clear All" of the list of selected PDFs
ClearAll ==
    /\ ~parsedData.present /\ Len(pdfFiles) > 0
    /\ pdfFiles' = <<>>
    /\ emailAttachments' = <<>>
    /\ UNCHANGED <<isProcessing, parsedData, appError, emailBody, emailFileName,
                   emailMetadata, isEmailSummarized, upPc, anPc, emailVia, anVia>>
    /\ UNCHANGED <<xvars, nvars, pvars>>

\* resetForm, from the view that shows the parsed record
ResetForm ==
    /\ parsedData.present
    /\ parsedData' = NoParsed
    /\ pdfFiles' = <<>>
    /\ emailAttachments' = <<>>
    /\ emailBody' = EmptyText
    /\ emailFileName' = JNull
    /\ emailMetadata' = NoMetadata
    /\ isEmailSummarized' = FALSE
    /\ emailVia' = "none"
    /\ appError' = <<>>
    /\ UNCHANGED <<isProcessing, upPc, anPc, anVia>>
    /\ UNCHANGED <<xvars, nvars, pvars>>

NextApp ==
    \/ HandleEmailSelect
    \/ EmailParseResolves
    \/ EmailParseRejects
    \/ FallbackResolves
    \/ FallbackRejects
    \/ RemoveEmail
    \/ HandlePdfSelect
    \/ RemovePdf
    \/ HandleAnalyze
    \/ ConvertResolves
    \/ ConvertRejects
    \/ AppSummarizeOk
    \/ AppSummarizeFails
    \/ AppExtractOk
    \/ AppExtractEmpty
    \/ AppExtractFails
    \/ AnalyzeResolves
    \/ AnalyzeRejects
    \/ HandleAnalyzeAgain
    \/ OtherConvertResolves
    \/ OtherConvertRejects
    \/ OtherAnalyzeResolves
    \/ OtherAnalyzeRejects
    \/ ClearAll
    \/ ResetForm

InitApp == IdleNormVars /\ IdleParseVars /\ IdleAppVars /\ IdleOtherVars
SpecApp == InitApp /\ [][NextApp]_vars

\* C8: in every Analyze action started after an email file was parsed
\* successfully with a body longer than 10,000 characters, a summarization call
\* is issued before the extraction call.
C8_LongEmailSummarizedFirst ==
    (anPc = "parsing" /\ anVia = "parsed" /\ args.emailBody.len > 10000
       /\ Issued("extract_call")) =>
        (Issued("summarize_call") /\ IndexOf("summarize_call") < IndexOf("extract_call"))

(***************************************************************************)
(* SpecMerge: parseInsurancePdf called with a PDF and an email body, short *)
(* or long, the two services answering with records whose scalars and     *)
(* nested groups are known, unknown or left out in every combination.     *)
(***************************************************************************)
MergeArgSet ==
    [base64DataArray : {<<"JVBERi0=">>},
     emailBody : {Text("body", 3, FALSE), Text("body", EMAIL_SUMMARY_THRESHOLD + 1, FALSE)},
     isEmailSummarized : {FALSE},
     emailMetadata : {NoMetadata,
                      [present |-> TRUE, from |-> SenderAddress, subject |-> JNull]}]

MergeExtractedSet ==
    [broker_email : {JNull, "producer@agency.com"},
     insured_name : {JNull, "Acme Corp"},
     agg_limit : {Null, Num(1000000)},
     retention : {Null, Num(5200)},
     insured_contact : {NoGroup, Group(TRUE, "Phone")},
     insured_location : {NullMembers("insured_location", FALSE), Location(TRUE, "Austin")},
     claims : {NullMembers("claims", FALSE), Claims(TRUE, Num(2))},
     website : {NullMembers("website", FALSE), Website(TRUE, "true", "acme.com")},
     parsing_notes : {NoNotes}]

MergeAnswerSet ==
    [summary : {Text("summary", 800, FALSE)},
     fields : [broker_email : {JNull, "broker@summary.com"},
               insured_name : {JNull, "Acme Inc"},
               agg_limit : {Null, Num(250000)},
               retention : {Null, Num(10000)},
               insured_contact : {NoGroup, Group(TRUE, "Email")},
               insured_location : {NullMembers("insured_location", FALSE),
                                   Location(TRUE, "Dallas")},
               claims : {NullMembers("claims", FALSE), Claims(TRUE, Num(1))},
               website : {NullMembers("website", FALSE), Website(TRUE, "true", JNull)}]]

MergeStart ==
    /\ pc = "idle"
    /\ \E a \in MergeArgSet : ParseBegin(a)
    /\ UNCHANGED <<xvars, nvars, avars>>

MergeSummarizeOk ==
    (\E answer \in MergeAnswerSet : SummarizeResolves(answer)) /\ UNCHANGED <<xvars, nvars, avars>>
MergeSummarizeFails == SummarizeRejects /\ UNCHANGED <<xvars, nvars, avars>>
MergeExtractOk ==
    (\E data \in MergeExtractedSet : ExtractResolves(data)) /\ UNCHANGED <<xvars, nvars, avars>>

NextMerge ==
    \/ MergeStart
    \/ MergeSummarizeOk
    \/ MergeSummarizeFails
    \/ MergeExtractOk

SpecMerge == InitParse /\ [][NextMerge]_vars

(***************************************************************************)
(* Properties of the merge and of the returned groups.                     *)
(***************************************************************************)
\* the primary extraction's value of a scalar if it is known, else the
\* partial record's
PrimaryFirst(key) ==
    IF ~IsNullish(key, rawData[key]) THEN rawData[key] ELSE emailSummaryFields.f[key]

\* the members of a group, and whether a member holds a value
Members(key) == DOMAIN NullMembers(key, TRUE) \ {"present"}
MemberKnown(key, v) == IF key = "claims" THEN v.t # "null" ELSE v # JNull

\* the record as the merge leaves it, before normalization and defaults
Merged ==
    MergeSummary(ApplySender(rawData, args.emailMetadata), emailSummaryFields,
                 args.emailMetadata)

C12_MemberwiseMerge ==
    (pc = "done" /\ emailSummaryFields.present) =>
        \A key \in GroupKeys : \A m \in Members(key) :
            (/\ rawData[key].present
             /\ emailSummaryFields.f[key].present
             /\ MemberKnown(key, rawData[key][m])
             /\ ~MemberKnown(key, emailSummaryFields.f[key][m]))
                => (result[key].present /\ result[key][m] = rawData[key][m])

\* C13: every returned record has an insured_contact group with a
\* preferred_method: "Email" when the merge left the group missing or the
\* method unset, the method the merge left otherwise.
C13_PreferredMethodSet ==
    pc = "done" =>
        /\ result.insured_contact.present
        /\ Truthy(result.insured_contact.preferred_method)
        /\ result.insured_contact.preferred_method =
              IF Merged.insured_contact.present
                 /\ Truthy(Merged.insured_contact.preferred_method)
              THEN Merged.insured_contact.preferred_method
              ELSE "Email"

C13_Witness ==
    /\ pc = "done" /\ ~emailSummaryFields.present
    /\ rawData.insured_contact = Group(TRUE, JNull)
    /\ result.insured_contact = Group(TRUE, "Email")

\* C14: every returned record holds all four nested groups, whatever groups
\* the answer of the extraction service left out.
C14_AllGroupsPresent ==
    pc = "done" => \A key \in GroupKeys : result[key].present

\* how many times an event was recorded in the current invocation
Count(e) == Cardinality({i \in 1..Len(events) : events[i] = e})

\* C20: an invocation issues at most one summarization call and at most one
\* extraction call; once the extraction call has failed or answered without
\* text, the invocation has ended with an error and that failure is the last
\* thing it did.
C20_SingleCallNoRetry ==
    /\ Count("summarize_call") <= 1
    /\ Count("extract_call") <= 1
    /\ Issued("extract_failed") =>
          (pc = "failed" /\ error # <<>> /\ events[Len(events)] = "extract_failed")

C20_Witness ==
    /\ pc = "failed"
    /\ events = <<"summarize_call", "summarize_failed", "extract_call", "extract_failed">>
    /\ error = MsgNoText

(***************************************************************************)
(* submitQuote: the payload transform.  The transform inspects strings, so *)
(* here every field is a JavaScript value (Null, Str of characters, Num,   *)
(* Bool, Undefined) and a group is a record of such members with a         *)
(* present flag (FALSE: the record has no such group).                     *)
(***************************************************************************)
Undefined == [t |-> "undefined", n |-> 0, s |-> <<>>]
Bool(b) == [t |-> "bool", n |-> IF b THEN 1 ELSE 0, s |-> <<>>]
Nullish(v) == v.t \in {"null", "undefined"}
\* truthiness of a string | boolean | null | undefined
TruthyValue(v) ==
    IF v.t = "str" THEN v.s # <<>> ELSE IF v.t = "bool" THEN v.n = 1 ELSE FALSE

\* group?.member
MemberOf(group, member) == IF group.present THEN group[member] ELSE Undefined

RECURSIVE TrimStart(_)
TrimStart(chars) ==
    IF chars # <<>> /\ Head(chars) = " " THEN TrimStart(Tail(chars)) ELSE chars
RECURSIVE TrimEnd(_)
TrimEnd(chars) ==
    IF chars # <<>> /\ chars[Len(chars)] = " "
    THEN TrimEnd(SubSeq(chars, 1, Len(chars) - 1)) ELSE chars
\* String.prototype.trim
Trim(chars) == TrimEnd(TrimStart(chars))

\* the i flag of a regular expression, on the letters of a scheme
LowerCase(c) ==
    IF c = "H" THEN "h" ELSE IF c = "T" THEN "t" ELSE IF c = "P" THEN "p"
    ELSE IF c = "S" THEN "s" ELSE c
SchemeHttp == <<"h", "t", "t", "p", ":", "/", "/">>
SchemeHttps == <<"h", "t", "t", "p", "s", ":", "/", "/">>
StartsWith(chars, prefix) ==
    Len(chars) >= Len(prefix) /\ SubSeq(chars, 1, Len(prefix)) = prefix
\* trimmed.match(/^https?:\/\//i)
MatchesScheme(chars) ==
    LET lower == [i \in 1..Len(chars) |-> LowerCase(chars[i])] IN
    StartsWith(lower, SchemeHttp) \/ StartsWith(lower, SchemeHttps)

\* a transform that blanks every string
ensureStringBlank(value) == Str(<<>>)
\* value ?? ''
ensureString(value) == IF Nullish(value) THEN Str(<<>>) ELSE value

\* "Ensures a URL has a protocol (adds https:// if missing)"
ensureValidUrl(url) ==
    IF ~TruthyValue(url) \/ Trim(url.s) = <<>> THEN Str(<<>>)
    ELSE IF MatchesScheme(Trim(url.s)) THEN Str(Trim(url.s))
    ELSE Str(SchemeHttps \o Trim(url.s))

\* transformPayload as the submission module under src/services has it: the
\* record without parsing_notes
transformPayloadStripOnly(data) == [k \in DOMAIN data \ {"parsing_notes"} |-> data[k]]

\* transformPayload: parsing_notes removed, null strings made empty, the
\* website rebuilt
transformPayload(data) ==
    LET rest == [k \in DOMAIN data \ {"parsing_notes"} |-> data[k]]
        has == MemberOf(rest.website, "has_website")
        hasWebsite == IF Nullish(has) THEN Bool(FALSE) ELSE has
        domainName == MemberOf(rest.website, "domainName")
        validDomainName ==
            IF TruthyValue(domainName) /\ Trim(domainName.s) # <<>>
            THEN ensureValidUrl(domainName) ELSE Str(<<>>)
        website ==
            Website(TRUE, hasWebsite,
                    IF TruthyValue(hasWebsite) /\ TruthyValue(validDomainName)
                    THEN validDomainName ELSE Undefined)
    IN  [rest EXCEPT
           !.broker_email = ensureString(@),
           !.insured_name = ensureString(@),
           !.insured_location = Location(TRUE, ensureString(MemberOf(@, "address_city"))),
           !.website = website,
           !.insured_contact = Group(TRUE, ensureString(MemberOf(@, "preferred_method")))]

(***************************************************************************)
(* SpecPayload: submitQuote handed a record from a bounded set, the        *)
(* payload built by either transform.                                      *)
(***************************************************************************)
DomainNames ==
    {Null, Str(<<>>), Str(<<" ">>), Str(<<"a", ".", "c", "o">>), Str(<<"h", "t", "t", "p", ":", "/", "/", "a", ".", "c", "o">>), Str(<<"h", "t", "t", "p", "s", ":", "/", "/", "a", ".", "c", "o">>), Str(<<"H", "T", "T", "P", ":", "/", "/", "a", ".", "c", "o">>), Str(<<" ", "a", ".", "c", "o", " ">>)}

QuoteSet ==
    [broker_email : {Null, Str(<<>>), Str(<<"b", "@", "k", "2">>)},
     insured_name : {Null, Str(<<"A", "c", "m", "e">>)},
     effective_date : {Null, Str(<<"2", "0", "2", "6", "-", "0", "1", "-", "0", "1">>)},
     agg_limit : {Null, Num(1000000)},
     insured_location : {Location(FALSE, Null), Location(TRUE, Null),
                         Location(TRUE, Str(<<"A", "u", "s", "t", "i", "n">>))},
     claims : {Claims(TRUE, Null), Claims(TRUE, Num(2))},
     website : {Website(FALSE, Null, Null)} \cup
               {Website(TRUE, has, domain) :
                  has \in {Null, Bool(TRUE), Bool(FALSE)}, domain \in DomainNames},
     insured_contact : {Group(FALSE, Null), Group(TRUE, Null),
                        Group(TRUE, Str(<<"P", "h", "o", "n", "e">>))},
     parsing_notes : {NoNotes, Notes(TRUE, <<Note("service", 1, 0, "")>>)}]

InitPayload ==
    /\ IdleNormVars /\ IdleParseVars /\ IdleAppVars
    /\ IdleTokenVars /\ IdleEmailVars /\ fileContent = NoFileContent /\ IdleLaterVars
    /\ ypc = "ready" /\ quote \in QuoteSet /\ payload = <<>>

\* submitQuote up to the request, with the transform that rebuilds the record
SubmitQuote ==
    /\ ypc = "ready"
    /\ payload' = transformPayload(quote)
    /\ ypc' = "sent"
    /\ UNCHANGED <<quote, nvars, pvars, avars, tvars, evars, fileContent, zvars>>

\* submitQuote up to the request, with the transform that only strips the notes
SubmitQuoteStripOnly ==
    /\ ypc = "ready"
    /\ payload' = transformPayloadStripOnly(quote)
    /\ ypc' = "sent"
    /\ UNCHANGED <<quote, nvars, pvars, avars, tvars, evars, fileContent, zvars>>

NextPayload ==
    \/ SubmitQuote
    \/ SubmitQuoteStripOnly

SpecPayload == InitPayload /\ [][NextPayload]_vars

(***************************************************************************)
(* Properties of the payload (SpecPayload).                                *)
(***************************************************************************)
\* the nullable string fields of a record: at the top level, and the members
\* of insured_location and insured_contact
TopLevelStrings == {"broker_email", "insured_name", "effective_date"}
GroupStrings == {<<"insured_location", "address_city">>,
                 <<"insured_contact", "preferred_method">>}

HasScheme(v) == v.t = "str" /\ (StartsWith(v.s, SchemeHttp) \/ StartsWith(v.s, SchemeHttps))

\* C17: the payload has no parsing_notes, has the empty string wherever the
\* record has a null string (top level, insured_location, insured_contact),
\* and holds website.domainName exactly when has_website is true and
\* domainName is a non-empty string, and then with an http:// or https://
\* scheme in front.
C17_PayloadShape ==
    ypc = "sent" =>
        /\ "parsing_notes" \notin DOMAIN payload
        /\ \A k \in TopLevelStrings : quote[k] = Null => payload[k] = Str(<<>>)
        /\ \A g \in GroupStrings :
             (quote[g[1]].present /\ quote[g[1]][g[2]] = Null)
                => (payload[g[1]].present /\ payload[g[1]][g[2]] = Str(<<>>))
        /\ (payload.website.present /\ payload.website.domainName.t = "str")
             <=> (/\ quote.website.present
                  /\ quote.website.has_website = Bool(TRUE)
                  /\ quote.website.domainName.t = "str"
                  /\ quote.website.domainName.s # <<>>)
        /\ (payload.website.present /\ payload.website.domainName.t = "str")
             => HasScheme(payload.website.domainName)

\* every field of the record holds a value
Populated(data) ==
    /\ \A k \in TopLevelStrings \cup {"agg_limit"} : data[k] # Null
    /\ \A k \in GroupKeys : data[k].present
    /\ data.insured_location.address_city # Null
    /\ data.insured_contact.preferred_method # Null
    /\ data.claims.claims_count # Null
    /\ data.website.has_website # Null
    /\ data.website.domainName # Null

\* every field but website.domainName has the record's value in the payload
SameButDomainName ==
    /\ \A k \in TopLevelStrings \cup {"agg_limit", "claims", "insured_location",
                                      "insured_contact"} : payload[k] = quote[k]
    /\ payload.website.present
    /\ payload.website.has_website = quote.website.has_website

C16_FallbackKeepsSender ==
    (/\ upPc = "idle" /\ emailVia = "fallback"
     /\ Truthy(fileContent.fromLine)
     /\ HasContent(fileContent.body))
        => (/\ HasContent(emailBody)
            /\ emailMetadata.present
            /\ emailMetadata.from = fileContent.fromLine)

(***************************************************************************)
(* getAccessToken: the module-level token cache.  A token is named by the  *)
(* environment whose token endpoint issued it.  A call runs from its start *)
(* to the await of fetch in one step, and from the response to its return  *)
(* in another.                                                             *)
(***************************************************************************)
MaxCalls == 3          \* calls of getAccessToken
MaxTicks == 2          \* ticks of the clock
TokenBuffer == 300     \* seconds taken off expires_in

Envs == {"test", "prod"}
CallIds == 1..MaxCalls
\* expires_in of a token response, seconds
ExpiresIn == {TokenBuffer, 3 * TokenBuffer}

NoCall == [pc |-> "idle", env |-> JNull, token |-> JNull, via |-> "none"]

InitToken ==
    /\ IdleNormVars /\ IdleParseVars /\ IdleAppVars
    /\ IdlePayloadVars /\ IdleEmailVars /\ fileContent = NoFileContent /\ IdleLaterVars
    /\ tenv \in Envs /\ cachedToken = JNull /\ tokenExpiry = 0 /\ cachedEnv = JNull
    /\ now = 0 /\ tcalls = [c \in CallIds |-> NoCall]

OtherThanToken == <<nvars, pvars, avars, yvars, evars, fileContent, zvars>>

\* the environment flag changes
SetEnvironment ==
    /\ tenv' \in Envs \ {tenv}
    /\ UNCHANGED <<cachedToken, tokenExpiry, cachedEnv, now, tcalls, OtherThanToken>>

\* time passes
Tick ==
    /\ now < MaxTicks * TokenBuffer
    /\ now' = now + TokenBuffer
    /\ UNCHANGED <<tenv, cachedToken, tokenExpiry, cachedEnv, tcalls, OtherThanToken>>

\* getAccessToken from its start to "await fetch(config.tokenUrl, ...)":
\* the credentials check, the cache cleared on a change of environment, the
\* cached token returned while it is valid
Start(c, configured) ==
    /\ tcalls[c].pc = "idle"
    /\ IF ~configured
       THEN /\ tcalls' = [tcalls EXCEPT ![c] = [pc |-> "failed", env |-> tenv,
                                                token |-> JNull, via |-> "none"]]
            /\ UNCHANGED <<cachedToken, tokenExpiry, cachedEnv>>
       ELSE LET changed == cachedEnv # tenv
                token == IF changed THEN JNull ELSE cachedToken
                expiry == IF changed THEN 0 ELSE tokenExpiry
            IN  /\ cachedEnv' = tenv
                /\ cachedToken' = token
                /\ tokenExpiry' = expiry
                /\ IF Truthy(token) /\ now < expiry
                   THEN tcalls' = [tcalls EXCEPT ![c] = [pc |-> "returned", env |-> tenv,
                                                         token |-> token, via |-> "cache"]]
                   ELSE tcalls' = [tcalls EXCEPT ![c] = [pc |-> "fetching", env |-> tenv,
                                                         token |-> JNull, via |-> "none"]]

\* the token endpoint of the call's environment answers: the token is cached
\* and returned
TokenResolves(c, expires_in) ==
    /\ tcalls[c].pc = "fetching"
    /\ cachedToken' = tcalls[c].env
    /\ tokenExpiry' = now + (expires_in - TokenBuffer)
    /\ tcalls' = [tcalls EXCEPT ![c].pc = "returned", ![c].token = tcalls[c].env,
                                ![c].via = "fetch"]
    /\ UNCHANGED cachedEnv

\* the token request fails (not ok, or fetch rejects): "Authentication error"
TokenRejects(c) ==
    /\ tcalls[c].pc = "fetching"
    /\ tcalls' = [tcalls EXCEPT ![c].pc = "failed"]
    /\ UNCHANGED <<cachedToken, tokenExpiry, cachedEnv>>

GetAccessToken ==
    /\ \E c \in CallIds, configured \in BOOLEAN : Start(c, configured)
    /\ UNCHANGED <<tenv, now, OtherThanToken>>
TokenRequestOk ==
    /\ \E c \in CallIds, expires_in \in ExpiresIn : TokenResolves(c, expires_in)
    /\ UNCHANGED <<tenv, now, OtherThanToken>>
TokenRequestFails ==
    /\ \E c \in CallIds : TokenRejects(c)
    /\ UNCHANGED <<tenv, now, OtherThanToken>>

NextToken ==
    \/ SetEnvironment
    \/ Tick
    \/ GetAccessToken
    \/ TokenRequestOk
    \/ TokenRequestFails

SpecToken == InitToken /\ [][NextToken]_vars

\* C19: a token returned by getAccessToken was issued for the environment in
\* effect when the call started, whether it came from the cache or from the
\* token endpoint.
C19_TokenOfOwnEnvironment ==
    \A c \in CallIds : tcalls[c].pc = "returned" => tcalls[c].token = tcalls[c].env

(***************************************************************************)
(* parseEmailFile: the sender address.  The MIME parser hands over a       *)
(* message object; a header of it, or parsed.from, is a field of one of    *)
(* the shapes extractEmailAddress provides for:                            *)
(*   "none"         undefined                                              *)
(*   "string"       a plain string                                         *)
(*   "list"         { value: [ { address, name } ] }                       *)
(*   "valueString"  { value: "..." }                                       *)
(*   "direct"       { address: "..." }                                     *)
(* and addr is the address it holds: for a string, its first               *)
(* address-shaped token (the match of /[\w\.-]+@[\w\.-]+\.\w+/), JNull     *)
(* when it holds none.  headers lists the entries of parsed.headers in     *)
(* the order Object.entries gives them.                                    *)
(***************************************************************************)
MaxHeaders == 2        \* entries of parsed.headers

Field(kind, addr) == [kind |-> kind, addr |-> addr]
NoField == Field("none", JNull)

\* the first entry of headers under exactly this key: parsed.headers?.[key]?.[0]
RECURSIVE HeaderAt(_, _)
HeaderAt(headers, key) ==
    IF headers = <<>> THEN NoField
    ELSE IF Head(headers).key = key THEN Head(headers).field
    ELSE HeaderAt(Tail(headers), key)

\* key.toLowerCase()
KeyLowerCase(key) == IF key = "From" THEN "from" ELSE IF key = "Sender" THEN "sender" ELSE key

NamedHeaders == {"from", "return-path", "reply-to", "sender"}

\* "Helper to extract email address from parsed address field"
extractEmailAddress(addressField) ==
    IF addressField.kind = "none" THEN JNull
    ELSE IF addressField.kind = "string" THEN addressField.addr
    ELSE IF addressField.kind = "list" THEN addressField.addr
    ELSE IF addressField.kind = "valueString" THEN addressField.addr
    ELSE addressField.addr

\* "2. Try "Return-Path" header": a string, or an object whose value is one
ReturnPathStep(headers) ==
    LET returnPathHeader == HeaderAt(headers, "return-path") IN
    IF returnPathHeader.kind \in {"string", "valueString"} THEN returnPathHeader.addr
    ELSE JNull

\* "5. Try parsing from raw headers if still not found": the first entry, in
\* the order of the headers, whose key is one of the four names whatever its
\* case and whose value (or value.value) is a string holding an address
RECURSIVE HeaderScan(_)
HeaderScan(headers) ==
    IF headers = <<>> THEN JNull
    ELSE IF /\ KeyLowerCase(Head(headers).key) \in NamedHeaders
            /\ Head(headers).field.kind \in {"string", "valueString"}
            /\ Truthy(Head(headers).field.addr)
         THEN Head(headers).field.addr
         ELSE HeaderScan(Tail(headers))

\* x || y, on nullable strings
OrElse(x, y) == IF Truthy(x) THEN x ELSE y

\* the broker email after steps 1 to 5
StructuredSender(parsed) ==
    LET step1 == extractEmailAddress(parsed.from)
        step2 == OrElse(step1, ReturnPathStep(parsed.headers))
        step3 == OrElse(step2, extractEmailAddress(HeaderAt(parsed.headers, "reply-to")))
        step4 == OrElse(step3, extractEmailAddress(HeaderAt(parsed.headers, "sender")))
    IN  OrElse(step4, HeaderScan(parsed.headers))

\* "If broker email is still null, try parsing from raw email content": the
\* address of the first line beginning "From:", else what stands between the
\* angle brackets of a "Return-Path:" line
RawSender(parsed) ==
    IF parsed.rawFrom.present /\ Truthy(parsed.rawFrom.addr) THEN parsed.rawFrom.addr
    ELSE parsed.rawReturnPath

\* metadata.from as parseEmailFile returns it
SenderOf(parsed) == OrElse(StructuredSender(parsed), RawSender(parsed))

(***************************************************************************)
(* SpecSender: parseEmailFile on messages with up to MaxHeaders headers of *)
(* every shape, each header holding its own address or none.               *)
(***************************************************************************)
HeaderKeys == {"from", "From", "return-path", "reply-to", "sender", "x-sender"}

\* the address a header of this name holds, when it holds one
AddrOf(key) ==
    IF KeyLowerCase(key) = "from" THEN "from@brokerage.com"
    ELSE IF key = "return-path" THEN "bounce@brokerage.com"
    ELSE IF key = "reply-to" THEN "reply@brokerage.com"
    ELSE IF key = "sender" THEN "sender@brokerage.com"
    ELSE "other@brokerage.com"

HeaderFields(key) ==
    {Field("list", AddrOf(key)), Field("list", JNull), Field("string", AddrOf(key)),
     Field("string", JNull), Field("valueString", AddrOf(key))}

HeaderEntries ==
    UNION {{[key |-> k, field |-> f] : f \in HeaderFields(k)} : k \in HeaderKeys}

\* parsed.headers: an object, so no key twice
HeaderLists ==
    {hs \in SeqsUpTo(HeaderEntries, MaxHeaders) :
       \A i, j \in 1..Len(hs) : i # j => hs[i].key # hs[j].key}

\* the address the first header of this name, whatever its case, holds
RECURSIVE HeldBy(_, _)
HeldBy(headers, name) ==
    IF headers = <<>> THEN JNull
    ELSE IF KeyLowerCase(Head(headers).key) = name /\ Truthy(Head(headers).field.addr)
         THEN Head(headers).field.addr
         ELSE HeldBy(Tail(headers), name)

\* a From header the parser shows is a "From:" line of the raw text, with the
\* same address or as little of one
RawTextAgrees(e) ==
    (e.from.kind # "none" \/ \E i \in 1..Len(e.headers) : KeyLowerCase(e.headers[i].key) = "from")
        => (/\ e.rawFrom.present
            /\ e.rawFrom.addr = OrElse(e.from.addr, HeldBy(e.headers, "from")))

EmlSet ==
    {e \in [from : {NoField, Field("list", AddrOf("from")), Field("list", JNull),
                    Field("string", AddrOf("from")), Field("direct", AddrOf("from"))},
            headers : HeaderLists,
            rawFrom : {[present |-> FALSE, addr |-> JNull], [present |-> TRUE, addr |-> JNull],
                       [present |-> TRUE, addr |-> AddrOf("from")]},
            rawReturnPath : {JNull, AddrOf("return-path")}] :
       RawTextAgrees(e)}

InitSender ==
    /\ IdleNormVars /\ IdleParseVars /\ IdleAppVars
    /\ IdlePayloadVars /\ IdleTokenVars /\ fileContent = NoFileContent /\ IdleLaterVars
    /\ epc = "parsed" /\ eml \in EmlSet /\ brokerEmail = JNull

OtherThanSender == <<nvars, pvars, avars, yvars, tvars, fileContent, zvars>>

\* parseEmailFile from "Extract broker/agent email" to the metadata object
ExtractSender ==
    /\ epc = "parsed"
    /\ brokerEmail' = StructuredSender(eml)
    /\ epc' = "metadata"
    /\ UNCHANGED <<eml, OtherThanSender>>

\* parseEmailFile: the fallback on the raw text of the file
RawSenderFallback ==
    /\ epc = "metadata"
    /\ brokerEmail' = IF Truthy(brokerEmail) THEN brokerEmail ELSE RawSender(eml)
    /\ epc' = "done"
    /\ UNCHANGED <<eml, OtherThanSender>>

NextSender ==
    \/ ExtractSender
    \/ RawSenderFallback

SpecSender == InitSender /\ [][NextSender]_vars

\* the first address any header value holds
RECURSIVE AnyHeaderToken(_)
AnyHeaderToken(headers) ==
    IF headers = <<>> THEN JNull
    ELSE IF Truthy(Head(headers).field.addr) THEN Head(headers).field.addr
    ELSE AnyHeaderToken(Tail(headers))

\* C15: metadata.from is the address of the first source that yields one, in
\* the order From header, Return-Path header, Reply-To header, Sender header,
\* any header value holding an address, the "From:" or "Return-Path:" line of
\* the raw text.
C15_SenderPriority ==
    epc = "done" =>
        brokerEmail =
            OrElse(OrElse(eml.from.addr, HeldBy(eml.headers, "from")),
            OrElse(HeldBy(eml.headers, "return-path"),
            OrElse(HeldBy(eml.headers, "reply-to"),
            OrElse(HeldBy(eml.headers, "sender"),
            OrElse(AnyHeaderToken(eml.headers),
                   RawSender(eml))))))

(***************************************************************************)
(* The notes of the returned record (SpecParse).                           *)
(***************************************************************************)
\* C25: the notes of the record parseInsurancePdf returns are the notes of
\* the extraction service, unchanged and in order, followed by the
\* sender-override note when the metadata carries a sender, then by the
\* "email was summarized" note when the summarization succeeded, then by
\* one aggregate-limit note when the normalizer changed a positive limit;
\* nothing else adds a note.
C25_NotesAppendOnly ==
    pc = "done" =>
        LET from == MetaFrom(args.emailMetadata)
            given == Merged.agg_limit
            head == rawData.parsing_notes.items
                      \o (IF Truthy(from) THEN <<NoteSender(from)>> ELSE <<>>)
                      \o (IF sumOutcome = "ok" THEN <<NoteSummarized>> ELSE <<>>)
            adjusted == ~NotPositive(given) /\ result.agg_limit # Meaning(given)
            notes == result.parsing_notes.items
        IN  /\ IsPrefixOf(head, notes)
            /\ Len(notes) = Len(head) + (IF adjusted THEN 1 ELSE 0)
            /\ adjusted =>
                  notes[Len(notes)].kind \in {"AggLimitExceedsMaximum", "AggLimitAdjusted"}

\* a service note, then the three notes of the post-processing, with a
\* retention snapped to its tier and the contact method defaulted
C25_Witness ==
    /\ pc = "done"
    /\ Len(rawData.parsing_notes.items) = 1
    /\ Len(result.parsing_notes.items) = 4
    /\ result.parsing_notes.items[1] = rawData.parsing_notes.items[1]
    /\ result.parsing_notes.items[2].kind = "BrokerFromSender"
    /\ result.parsing_notes.items[3] = NoteSummarized
    /\ result.parsing_notes.items[4] = AggNoteClamp(5000000)
    /\ rawData.retention = Num(5200) /\ result.retention = Num(5000)
    /\ ~rawData.insured_contact.present /\ result.insured_contact.preferred_method = "Email"

(***************************************************************************)
(* Properties of the App's handlers (SpecApp, SpecAppLive).                *)
(***************************************************************************)
\* calls of parseInsurancePdf that have not settled
ParseCallsInFlight ==
    (IF anPc = "parsing" /\ pc \in {"summarizing", "extracting"} THEN 1 ELSE 0)
      + Cardinality({i \in 1..Len(others) : others[i].pc = "parsing"})

\* C21: for every interleaving of the user's actions with the completions
\* of the email parse and of the analysis, at most one call of
\* parseInsurancePdf is in flight at any time.
C21_OneOrchestrationInFlight == ParseCallsInFlight <= 1

\* C27: removeEmail leaves every PDF the user uploaded directly in the staged
\* list, also when an attachment of the email has the name of such a PDF.
C27_RemoveEmailKeepsUploads ==
    [][RemoveEmail =>
         \A i \in 1..Len(pdfFiles) :
            pdfFiles[i].via = "user" => pdfFiles[i] \in Range(pdfFiles')]_vars

\* C28: after any sequence of PDF selections, email uploads, PDF removals and
\* email removals, no two files of the staged list have the same name.
C28_StagedNamesDistinct ==
    \A i, j \in 1..Len(pdfFiles) : i # j => pdfFiles[i].name # pdfFiles[j].name

\* an invocation of handleAnalyze has not returned
AnalysisInFlight == anPc # "idle" \/ Len(others) > 0

\* the awaited calls settle and the code after an await runs
SpecAppLive ==
    /\ SpecApp
    /\ WF_vars(EmailParseResolves \/ EmailParseRejects)
    /\ WF_vars(FallbackResolves \/ FallbackRejects)
    /\ WF_vars(ConvertResolves \/ ConvertRejects)
    /\ WF_vars(AppSummarizeOk \/ AppSummarizeFails)
    /\ WF_vars(AppExtractOk \/ AppExtractEmpty \/ AppExtractFails)
    /\ WF_vars(AnalyzeResolves \/ AnalyzeRejects)
    /\ WF_vars(OtherConvertResolves \/ OtherConvertRejects)
    /\ WF_vars(OtherAnalyzeResolves \/ OtherAnalyzeRejects)

\* C30: every started email upload and every started Analyze action ends
\* with isProcessing = false, and isProcessing is true at every moment an
\* analysis is in flight.
C30_ProcessingFlag ==
    /\ [](AnalysisInFlight => isProcessing)
    /\ (upPc # "idle") ~> (upPc = "idle" /\ ~isProcessing)
    /\ (anPc # "idle") ~> (anPc = "idle" /\ ~isProcessing)

(***************************************************************************)
(* parseEmailFile: the body and the PDF attachments, from the tree of MIME *)
(* nodes the parser returns.  A node has a content type, a disposition, the *)
(* file name it declares (if any), a content and child nodes.  A content   *)
(* is the list of its words and tags; a body is such a list, and the empty *)
(* list is the empty string.                                               *)
(***************************************************************************)
\* a content, or a text or html property, that the node does not have
Absent == <<"<absent>">>

\* a file name: "scan" is FileName("scan", ""), "a.pdf" is FileName("a", ".pdf")
FileName(stem, ext) == [stem |-> stem, ext |-> ext]
\* the node declares no file name
Undeclared == FileName("<none>", "")
\* filename.toLowerCase().endsWith('.pdf')
EndsWithPdf(filename) == filename.ext \in {".pdf", ".PDF", ".Pdf"}

Node(contentType, disposition, declared, content, childNodes) ==
    [contentType |-> contentType, disposition |-> disposition, declared |-> declared,
     content |-> content, childNodes |-> childNodes]

\* contentType.includes('text/plain'), contentType.includes('text/html'),
\* disposition.includes('attachment'): the types and dispositions of the
\* model are bare values, none of which contains another
IsTextPlain(node) == node.contentType = "text/plain"
IsTextHtml(node) == node.contentType = "text/html"
IsAttachmentDisposition(node) == node.disposition = "attachment"

Tags == {"<p>", "<br>"}
\* content.replace(/<[^>]*>/g, ' ').replace(/\s+/g, ' ').trim()
StripTags(content) == SelectSeq(content, LAMBDA tok : tok \notin Tags)

\* contentToString(node): the decoded bytes, '' for a node without content
contentToString(node) == IF node.content = Absent THEN <<>> ELSE node.content

RECURSIVE extractBodyFromNode(_, _)
RECURSIVE FirstBody(_, _, _, _)
\* one of the three loops over node.childNodes, from child i on: the first
\* non-empty text of a child the pass looks at
FirstBody(childNodes, i, pass, preferText) ==
    IF i > Len(childNodes) THEN <<>>
    ELSE LET child == childNodes[i]
             text == CASE pass = "plain" ->
                            IF IsTextPlain(child) THEN extractBodyFromNode(child, TRUE)
                            ELSE <<>>
                      [] pass = "html" ->
                            IF IsTextHtml(child) THEN extractBodyFromNode(child, FALSE)
                            ELSE <<>>
                      [] OTHER ->
                            IF ~IsAttachmentDisposition(child)
                            THEN extractBodyFromNode(child, preferText)
                            ELSE <<>>
         IN  IF text # <<>> THEN text ELSE FirstBody(childNodes, i + 1, pass, preferText)

extractBodyFromNode(node, preferText) ==
    IF IsAttachmentDisposition(node) /\ ~IsTextPlain(node) /\ ~IsTextHtml(node) THEN <<>>
    ELSE IF (IsTextPlain(node) \/ IsTextHtml(node)) /\ contentToString(node) # <<>>
    THEN IF IsTextHtml(node) THEN StripTags(contentToString(node))
         ELSE contentToString(node)
    ELSE LET text == IF preferText THEN FirstBody(node.childNodes, 1, "plain", preferText)
                     ELSE <<>>
         IN  IF text # <<>> THEN text
             ELSE LET html == FirstBody(node.childNodes, 1, "html", preferText) IN
                  IF html # <<>> THEN html
                  ELSE FirstBody(node.childNodes, 1, "any", preferText)

\* "Extract clean email body"
EmailBodyOf(parsed) ==
    IF parsed.text # Absent /\ parsed.text # <<>> THEN parsed.text
    ELSE IF parsed.html # Absent /\ parsed.html # <<>> THEN StripTags(parsed.html)
    ELSE extractBodyFromNode(parsed.root, TRUE)

\* extractFilename(node)
extractFilename(node) ==
    IF node.declared # Undeclared THEN node.declared ELSE FileName("attachment", ".pdf")

\* const isAttachment = ...
isAttachment(node) ==
    \/ IsAttachmentDisposition(node)
    \/ (node.contentType = "application/pdf" /\ EndsWithPdf(extractFilename(node)))
    \/ (node.contentType = "application/octet-stream" /\ EndsWithPdf(extractFilename(node)))

RECURSIVE extractAttachmentsFromNode(_)
RECURSIVE AttachmentsOfChildren(_, _)
AttachmentsOfChildren(childNodes, i) ==
    IF i > Len(childNodes) THEN <<>>
    ELSE extractAttachmentsFromNode(childNodes[i]) \o AttachmentsOfChildren(childNodes, i + 1)
extractAttachmentsFromNode(node) ==
    (IF isAttachment(node) /\ node.content # Absent THEN <<node>> ELSE <<>>)
      \o AttachmentsOfChildren(node.childNodes, 1)

\* the File made of an attachment: its name, and the part whose bytes it holds
PdfFile(attachment) == [name |-> extractFilename(attachment), part |-> attachment]

\* "Extract PDF attachments": the loop over allAttachments
PdfAttachmentsOf(parsed) ==
    LET allAttachments == parsed.attachments \o extractAttachmentsFromNode(parsed.root)
        kept == SelectSeq(allAttachments,
                          LAMBDA a : /\ \/ a.contentType = "application/pdf"
                                        \/ EndsWithPdf(extractFilename(a))
                                     /\ a.content # Absent)
    IN  [i \in 1..Len(kept) |-> PdfFile(kept[i])]

(***************************************************************************)
(* SpecMime: parseEmailFile on messages whose root holds up to MaxParts    *)
(* parts, a part being a leaf or a multipart/alternative of text leaves.   *)
(***************************************************************************)
MaxParts == 2          \* parts under the root

Leaf(contentType, disposition, declared, content) ==
    Node(contentType, disposition, declared, content, <<>>)

PlainBody == Leaf("text/plain", "", Undeclared, <<"Please", "quote">>)
HtmlBody == Leaf("text/html", "", Undeclared, <<"<p>", "Kindly", "quote", "<br>">>)
EmptyPlain == Leaf("text/plain", "", Undeclared, <<>>)
PlainAttached == Leaf("text/plain", "attachment", FileName("notes", ".txt"), <<"Minutes">>)
HtmlAttached == Leaf("text/html", "attachment", FileName("page", ".html"), <<"<p>", "Page">>)
TextLeaves == {PlainBody, HtmlBody, EmptyPlain, PlainAttached, HtmlAttached}

PdfBytes == <<"%PDF">>
FileLeaves ==
    {Leaf("application/pdf", "attachment", FileName("app", ".pdf"), PdfBytes),
     Leaf("application/pdf", "attachment", Undeclared, PdfBytes),
     Leaf("application/pdf", "inline", FileName("scan", ""), PdfBytes),
     Leaf("application/pdf", "attachment", FileName("lost", ".pdf"), Absent),
     Leaf("application/octet-stream", "", FileName("form", ".PDF"), PdfBytes),
     Leaf("image/png", "inline", FileName("logo", ".png"), <<"PNG">>),
     Leaf("image/png", "attachment", Undeclared, <<"PNG">>)}

Alternatives ==
    {Node("multipart/alternative", "", Undeclared, Absent, childNodes) :
       childNodes \in {<<PlainBody, HtmlBody>>, <<HtmlBody, PlainBody>>, <<PlainBody>>,
                       <<EmptyPlain, HtmlBody>>}}

Parts == TextLeaves \cup FileLeaves \cup Alternatives

\* a multipart/mixed root over the parts, or a message that is one text part
Roots ==
    {Node("multipart/mixed", "", Undeclared, Absent, childNodes) :
       childNodes \in SeqsUpTo(Parts, MaxParts)} \cup {PlainBody, HtmlBody}

\* what the parser returns: the root, and the direct text, html and
\* attachments properties, which a parser may or may not provide
ParsedSet ==
    [root : Roots,
     text : {Absent, <<"Direct", "text">>},
     html : {Absent, <<"<p>", "Direct", "html">>},
     attachments : {<<>>, <<Leaf("application/pdf", "attachment", FileName("loss-runs", ".pdf"),
                                 PdfBytes)>>}]

InitMime ==
    /\ IdleNormVars /\ IdleParseVars /\ IdleAppVars
    /\ IdlePayloadVars /\ IdleTokenVars /\ IdleEmailVars /\ fileContent = NoFileContent
    /\ others = <<>> /\ IdleFormVars
    /\ mpc = "parsed" /\ mime \in ParsedSet /\ mailBody = <<>> /\ pdfAttachments = <<>>

OtherThanMime == <<nvars, pvars, avars, yvars, tvars, evars, fileContent, others, fvars>>

\* parseEmailFile: "Extract clean email body"
ExtractBody ==
    /\ mpc = "parsed"
    /\ mailBody' = EmailBodyOf(mime)
    /\ mpc' = "body"
    /\ UNCHANGED <<mime, pdfAttachments, OtherThanMime>>

\* parseEmailFile: "Extract PDF attachments"
ExtractPdfAttachments ==
    /\ mpc = "body"
    /\ pdfAttachments' = PdfAttachmentsOf(mime)
    /\ mpc' = "done"
    /\ UNCHANGED <<mime, mailBody, OtherThanMime>>

NextMime ==
    \/ ExtractBody
    \/ ExtractPdfAttachments

SpecMime == InitMime /\ [][NextMime]_vars

(***************************************************************************)
(* Properties of the body and of the attachments (SpecMime).               *)
(***************************************************************************)
RECURSIVE AllNodes(_)
\* the nodes of the tree under node, node included
AllNodes(node) ==
    {node} \cup UNION {AllNodes(node.childNodes[i]) : i \in 1..Len(node.childNodes)}

IsLeaf(node) == node.childNodes = <<>>
\* the text a text leaf stands for as a body
LeafText(node) ==
    IF IsTextHtml(node) THEN StripTags(contentToString(node)) ELSE contentToString(node)
NoDirectBody == mime.text = Absent /\ mime.html = Absent

\* C23: when the root exposes no direct text or HTML body and the tree holds,
\* at any depth, a text/plain leaf that is no attachment and has content, the
\* body is the content of a text/plain leaf; a stripped text/html leaf is
\* the body only when the tree has no such text/plain leaf.
C23_PlainBeforeHtml ==
    (/\ mpc \in {"body", "done"} /\ NoDirectBody
     /\ \E n \in AllNodes(mime.root) :
           /\ IsLeaf(n) /\ IsTextPlain(n) /\ ~IsAttachmentDisposition(n)
           /\ contentToString(n) # <<>>)
        => \E n \in AllNodes(mime.root) :
              IsLeaf(n) /\ IsTextPlain(n) /\ mailBody = contentToString(n)

\* C24: the attachments of a parsed email are exactly the PDF-identified
\* parts with content: every part with content whose content type is
\* application/pdf is retained, whatever its file name or disposition, and
\* no part is retained whose content type is not application/pdf and whose
\* own declared file name does not end in ".pdf".
C24_PdfPartsExactly ==
    mpc = "done" =>
        /\ \A n \in AllNodes(mime.root) :
              (n.contentType = "application/pdf" /\ n.content # Absent)
                 => \E i \in 1..Len(pdfAttachments) : pdfAttachments[i].part = n
        /\ \A i \in 1..Len(pdfAttachments) :
              LET part == pdfAttachments[i].part IN
              /\ part.content # Absent
              /\ \/ part.contentType = "application/pdf"
                 \/ (part.declared # Undeclared /\ EndsWithPdf(part.declared))

\* C29: the body never comes from a part whose disposition is "attachment":
\* a text/plain or text/html part marked as an attachment is not used as the
\* body, wherever it is in the tree.  (The texts of the parts of one message
\* differ, so a body names the part it comes from.)
C29_NoAttachmentBody ==
    (mpc \in {"body", "done"} /\ NoDirectBody) =>
        \A n \in AllNodes(mime.root) :
           (/\ IsAttachmentDisposition(n) /\ (IsTextPlain(n) \/ IsTextHtml(n))
            /\ LeafText(n) # <<>>)
              => mailBody # LeafText(n)



(***************************************************************************)
(* QuoteForm.  formData is a function from the paths updateField is called *)
(* with (['agg_limit'], ['website', 'has_website'], ...) to JavaScript     *)
(* values, and from ['parsing_notes'] to the list of notes.  The effect    *)
(* on [formData] that sets stats runs with every change of formData, so    *)
(* each action that writes formData writes stats with it.                  *)
(***************************************************************************)
TopLevelFields ==
    {"broker_email", "insured_name", "insured_taxid", "year_founded", "effective_date",
     "revenue", "naics", "question_highrisk", "agg_limit", "retention"}
FormGroups == {"insured_location", "claims", "website", "insured_contact"}
GroupMembers(group) ==
    CASE group = "insured_location" ->
           {"address_line1", "address_line2", "address_city", "address_state", "address_zip"}
      [] group = "claims" -> {"claims_count", "claims_amount"}
      [] group = "website" -> {"has_website", "domainName"}
      [] group = "insured_contact" ->
           {"first_name", "last_name", "email", "phone", "preferred_method"}
FieldPaths ==
    {<<f>> : f \in TopLevelFields} \cup
    UNION {{<<g, m>> : m \in GroupMembers(g)} : g \in FormGroups}
NotesPath == <<"parsing_notes">>

\* "Helper to identify missing fields (null, undefined, or empty string)"
isMissing(value) == Nullish(value) \/ (value.t = "str" /\ Trim(value.s) = <<>>)

Email == Str(<<"E", "m", "a", "i", "l">>)
\* "Helper to ensure all nested objects exist": data.values the members by
\* path, data.absent the groups the record lacks
sanitizeData(data) ==
    [p \in FieldPaths \cup {NotesPath} |->
       IF p = NotesPath THEN data.values[p]
       ELSE IF Len(p) = 1 THEN (IF Nullish(data.values[p]) THEN Null ELSE data.values[p])
       ELSE IF p[1] \notin data.absent THEN data.values[p]
       ELSE IF p = <<"insured_contact", "preferred_method">> THEN Email
       ELSE Null]

\* the list the effect on [formData] counts
requiredFields ==
    << <<"broker_email">>, <<"insured_name">>, <<"insured_taxid">>, <<"year_founded">>,
       <<"naics">>, <<"effective_date">>, <<"revenue">>, <<"agg_limit">>, <<"retention">>,
       <<"question_highrisk">>,
       <<"insured_location", "address_line1">>, <<"insured_location", "address_city">>,
       <<"insured_location", "address_state">>, <<"insured_location", "address_zip">>,
       <<"claims", "claims_count">>, <<"claims", "claims_amount">>,
       <<"website", "has_website">>,
       <<"insured_contact", "first_name">>, <<"insured_contact", "last_name">>,
       <<"insured_contact", "email">>, <<"insured_contact", "preferred_method">> >>

\* what the effect on [formData] hands to setStats.  percent is compared with
\* 100 only, and (filled / total) * 100 is 100 exactly when filled = total,
\* as is the rounded-down quotient here.
StatsOf(data) ==
    LET total == Len(requiredFields)
        filled == Cardinality({i \in 1..total : ~isMissing(data[requiredFields[i]])})
    IN  [total |-> total, filled |-> filled,
         percent |-> IF total > 0 THEN (filled * 100) \div total ELSE 0]

\* the submit button's disabled attribute, without isSubmitting
SubmitDisabledByStats == stats.percent # 100
\* the submit button's disabled attribute
SubmitDisabled == stats.percent # 100 \/ isSubmitting

(***************************************************************************)
(* SpecForm: the form mounted on a record from a bounded set, its fields   *)
(* edited, the submit button clicked, submitQuote settling.                *)
(***************************************************************************)
MaxSubmits == 2     \* clicks on the submit button that are followed
MaxFormNotes == 1   \* longest parsing_notes an edit may leave

Acme == Str(<<"A", "c", "m", "e">>)
\* a record with every field extracted
Extracted ==
    [p \in FieldPaths \cup {NotesPath} |->
       IF p = NotesPath THEN <<>>
       ELSE IF p \in {<<"year_founded">>, <<"revenue">>, <<"naics">>, <<"retention">>,
                      <<"claims", "claims_count">>, <<"claims", "claims_amount">>}
       THEN Num(5000)
       ELSE IF p = <<"agg_limit">> THEN Num(1000000)
       ELSE IF p \in {<<"question_highrisk">>, <<"website", "has_website">>} THEN Bool(FALSE)
       ELSE IF p = <<"insured_contact", "preferred_method">> THEN Email
       ELSE Acme]
\* the records the form is mounted on: parseInsurancePdf leaves agg_limit null
\* or normalized, 0 included
InitialData ==
    {[values |-> [Extracted EXCEPT ![<<"agg_limit">>] = agg, ![<<"insured_name">>] = name,
                                   ![<<"insured_contact", "first_name">>] = first],
      absent |-> absent] :
       agg \in {Null, Num(0), Num(1000000)},
       name \in {Undefined, Str(<<" ">>), Acme},
       first \in {Undefined, Acme},
       absent \in {{}, {"insured_contact"}}}

TypedTexts == {Str(<<>>), Str(<<" ">>), Acme}
TextPaths == {<<"insured_name">>, <<"insured_contact", "first_name">>}
\* what the select shown for a missing agg_limit can hand over
SelectableAggLimits ==
    {Null, Num(AGG_LIMIT_OPTIONS[1]), Num(AGG_LIMIT_OPTIONS[Len(AGG_LIMIT_OPTIONS)])}
\* what the number input shown for an agg_limit hands over: null for an
\* emptied input, Number(raw) otherwise
TypedAggLimits == {Null, Num(0), Num(60000), Num(1000000)}

InitForm ==
    /\ IdleNormVars /\ IdleParseVars /\ IdleAppVars
    /\ IdlePayloadVars /\ IdleTokenVars /\ IdleEmailVars /\ fileContent = NoFileContent
    /\ others = <<>> /\ IdleMimeVars
    /\ fpc = "form"
    /\ \E data \in InitialData :
         /\ formData = sanitizeData(data)
         /\ stats = StatsOf(sanitizeData(data))
    /\ isSubmitting = FALSE /\ submitResult = JNull /\ showResult = FALSE
    /\ errorModalOpen = FALSE /\ submits = <<>>

OtherThanForm == <<nvars, pvars, avars, yvars, tvars, evars, fileContent, others, mvars>>

\* updateField(path, value), and the effect on [formData]
UpdateField(path, value) ==
    /\ formData' = [formData EXCEPT ![path] = value]
    /\ stats' = StatsOf(formData')

\* a text input's onChange
TypeText ==
    /\ fpc = "form"
    /\ \E path \in TextPaths, v \in TypedTexts : UpdateField(path, v)
    /\ UNCHANGED <<fpc, isSubmitting, submitResult, showResult, errorModalOpen, submits,
                   OtherThanForm>>

\* the onChange of the select shown while agg_limit is missing
SelectAggLimit ==
    /\ fpc = "form"
    /\ isMissing(formData[<<"agg_limit">>])
    /\ \E v \in SelectableAggLimits : UpdateField(<<"agg_limit">>, v)
    /\ UNCHANGED <<fpc, isSubmitting, submitResult, showResult, errorModalOpen, submits,
                   OtherThanForm>>

\* the onChange of the number input shown while agg_limit is not missing:
\* the typed value normalized, the notes of the adjustment appended
TypeAggLimit ==
    /\ fpc = "form"
    /\ ~isMissing(formData[<<"agg_limit">>])
    /\ \E v \in TypedAggLimits :
         LET normalized == normalizeAggLimit(v, <<>>)
             newData == [formData EXCEPT ![<<"agg_limit">>] = Num(normalized.value)]
             noted == IF Len(normalized.notes) > 0
                      THEN [newData EXCEPT ![NotesPath] = @ \o normalized.notes]
                      ELSE newData
         IN  /\ Len(noted[NotesPath]) <= MaxFormNotes
             /\ formData' = noted
             /\ stats' = StatsOf(noted)
    /\ UNCHANGED <<fpc, isSubmitting, submitResult, showResult, errorModalOpen, submits,
                   OtherThanForm>>

\* whether every field the effect counts is filled in
AllRequiredFilled(data) ==
    \A i \in 1..Len(requiredFields) : ~isMissing(data[requiredFields[i]])

\* one click's call of submitQuote: pc "token" | "posting" | "done", the
\* POSTs it sent, how it ended, and whether the record it was handed had
\* every counted field filled in
Submission(at, requests, outcome, complete) ==
    [pc |-> at, requests |-> requests, outcome |-> outcome, complete |-> complete]

\* the submit button's onClick up to the await in submitQuote
ClickSubmit ==
    /\ fpc = "form"
    /\ ~SubmitDisabled
    /\ Len(submits) < MaxSubmits
    /\ isSubmitting' = TRUE
    /\ errorModalOpen' = FALSE
    /\ submits' = Append(submits, Submission("token", 0, "pending", AllRequiredFilled(formData)))
    /\ UNCHANGED <<fpc, formData, stats, submitResult, showResult, OtherThanForm>>

\* submitQuote: getAccessToken resolves and the POST is sent
AccessTokenResolves ==
    /\ \E i \in 1..Len(submits) :
         /\ submits[i].pc = "token"
         /\ submits' = [submits EXCEPT ![i].pc = "posting", ![i].requests = @ + 1]
    /\ UNCHANGED <<fpc, formData, stats, isSubmitting, submitResult, showResult,
                   errorModalOpen, OtherThanForm>>

\* the POST answers: the onClick after the await, the finally block included
PostResolves ==
    /\ \E i \in 1..Len(submits), status \in {"approved", "declined"} :
         /\ submits[i].pc = "posting"
         /\ submits' = [submits EXCEPT ![i].pc = "done", ![i].outcome = status]
         /\ submitResult' = status
         /\ showResult' = IF status = "approved" THEN TRUE ELSE showResult
         /\ errorModalOpen' = IF status = "approved" THEN errorModalOpen ELSE TRUE
    /\ isSubmitting' = FALSE
    /\ UNCHANGED <<fpc, formData, stats, OtherThanForm>>

\* getAccessToken or the POST fails: submitQuote throws, the onClick's catch
\* and finally blocks run
SubmitRejects ==
    /\ \E i \in 1..Len(submits) :
         /\ submits[i].pc \in {"token", "posting"}
         /\ submits' = [submits EXCEPT ![i].pc = "done", ![i].outcome = "error"]
    /\ submitResult' = "error"
    /\ errorModalOpen' = TRUE
    /\ isSubmitting' = FALSE
    /\ UNCHANGED <<fpc, formData, stats, showResult, OtherThanForm>>

\* the result modal's close button
CloseResult ==
    /\ showResult /\ submitResult = "approved"
    /\ showResult' = FALSE
    /\ UNCHANGED <<fpc, formData, stats, isSubmitting, submitResult, errorModalOpen,
                   submits, OtherThanForm>>

\* the result modal's "Edit & Resubmit" button
EditAndResubmit ==
    /\ showResult /\ submitResult = "approved"
    /\ showResult' = FALSE
    /\ submitResult' = JNull
    /\ UNCHANGED <<fpc, formData, stats, isSubmitting, errorModalOpen, submits,
                   OtherThanForm>>

\* the error modal's close buttons
CloseError ==
    /\ errorModalOpen /\ submitResult \notin {JNull, "approved"}
    /\ errorModalOpen' = FALSE
    /\ UNCHANGED <<fpc, formData, stats, isSubmitting, submitResult, showResult, submits,
                   OtherThanForm>>

\* the error modal's "Edit & Resubmit" button
EditAfterError ==
    /\ errorModalOpen /\ submitResult \notin {JNull, "approved"}
    /\ errorModalOpen' = FALSE
    /\ submitResult' = JNull
    /\ UNCHANGED <<fpc, formData, stats, isSubmitting, showResult, submits, OtherThanForm>>

NextForm ==
    \/ TypeText
    \/ SelectAggLimit
    \/ TypeAggLimit
    \/ ClickSubmit
    \/ AccessTokenResolves
    \/ PostResolves
    \/ SubmitRejects
    \/ CloseResult
    \/ EditAndResubmit
    \/ CloseError
    \/ EditAfterError

SpecForm == InitForm /\ [][NextForm]_vars

(***************************************************************************)
(* Properties of the form (SpecForm).                                      *)
(***************************************************************************)
SubmitsInFlight == {i \in 1..Len(submits) : submits[i].pc # "done"}

C26_ZeroAggLimitNotSet ==
    (fpc = "form" /\ formData[<<"agg_limit">>] = Num(0))
        => /\ isMissing(formData[<<"agg_limit">>])
           /\ stats.percent # 100
           /\ SubmitDisabled

====
